---- MODULE Spec2Model ----
(***************************************************************************)
(* Model of the financial-news pipeline: the stage callables of the        *)
(* agents (agents/*.py), the crew assembled in main.py and the stage       *)
(* context protocol that hands one stage's payload to the next.            *)
(*                                                                         *)
(* Python values are tagged records, so that isinstance() and truthiness   *)
(* are explicit.  A string is modelled by what the code observes of it:    *)
(* its paragraphs (split on a blank line) and, inside a paragraph, its     *)
(* whitespace-separated words.  Every call to an external service is an    *)
(* outcome drawn by the action that runs the stage and kept in `oracle`.   *)
(***************************************************************************)
EXTENDS Integers, Sequences, FiniteSets, TLC

VARIABLES
    pc,         \* position of the run
    env,        \* which credentials the process environment defines
    context,    \* the upstream value handed to the stage that ran last
    oracle,     \* the outcomes of the external calls of the stage that ran last
    result,     \* the payload the stage that ran last returned
    executed,   \* the stages that have run, in order
    calls,      \* the external calls of the stage that ran last, in order
    todo,       \* the stages still to run, in order
    mode,       \* how the framework hands a payload to the next stage
    emitted     \* what the call that ran last sent or wrote beside its return
                \* value: a Telegram text, the story of a document

vars == <<pc, env, context, oracle, result, executed, calls, todo, mode, emitted>>

Min(a, b) == IF a < b THEN a ELSE b

(***************************************************************************)
(* Python values                                                           *)
(***************************************************************************)
PyNone == [t |-> "none"]
PyDict(d) == [t |-> "dict", d |-> d]
PyList(l) == [t |-> "list", l |-> l]
PyStr(s) == [t |-> "str", s |-> s]
PyInt(n) == [t |-> "int", n |-> n]
PyBool(b) == [t |-> "bool", b |-> b]
\* A string kept character by character (a URL)
PyChars(c) == [t |-> "chars", c |-> c]
EmptyDict == [k \in {} |-> PyNone]

\* A word: its text, an index telling generated words apart, and the number
\* of "..." groups appended to it.
W(s) == [w |-> s, i |-> 0, dots |-> 0]
Wn(s, n) == [w |-> s, i |-> n, dots |-> 0]
Para(ws) == [k |-> "para", words |-> ws]
\* The string '': ''.split('\n\n') is [''], one paragraph without words.
EmptyText == <<Para(<<>>)>>
Sentence(ws) == <<Para(ws)>>

\* bool(v), as used by `if not v`
Truthy(v) ==
    CASE v.t = "none" -> FALSE
      [] v.t = "dict" -> DOMAIN v.d # {}
      [] v.t = "list" -> v.l # <<>>
      [] v.t = "str"  -> v.s # EmptyText
      [] v.t = "chars" -> v.c # <<>>
      [] v.t = "int"  -> v.n # 0
      [] v.t = "bool" -> v.b

\* `key in d`, for a dict d
HasKey(v, key) == key \in DOMAIN v.d

\* d.get(key, default)
Get(v, key, default) == IF key \in DOMAIN v.d THEN v.d[key] ELSE default

\* The outcome of evaluating an expression: a value, or a raised exception.
Ok(v) == [ok |-> TRUE, val |-> v]
Raise(e) == [ok |-> FALSE, err |-> e]

\* str(e) of a raised exception: a short message
ExcWords(e) == <<W(e)>>

\* datetime.now().isoformat()
Now == PyStr(Sentence(<<W("<now>")>>))

(***************************************************************************)
(* Strings                                                                 *)
(***************************************************************************)
\* "<title>]": the bracket closes the last word of the title
CloseBracket(ws) ==
    IF ws = <<>> THEN <<W("]")>>
    ELSE SubSeq(ws, 1, Len(ws) - 1)
         \o <<[w |-> ws[Len(ws)].w, i |-> ws[Len(ws)].i, dots |-> ws[Len(ws)].dots,
               close |-> TRUE]>>

\* The words of a chart marker "[Chart: <title>]\n<url>\n"
ChartWords(b) == <<W("[Chart:")>> \o CloseBracket(b.title) \o b.url

BlockWords(b) == IF b.k = "para" THEN b.words ELSE ChartWords(b)

\* s.split(): the whitespace-separated words of the whole string
RECURSIVE Words(_)
Words(text) ==
    IF text = <<>> THEN <<>> ELSE BlockWords(Head(text)) \o Words(Tail(text))

IsBlank(b) == b.k = "para" /\ b.words = <<>>

RECURSIVE DropLeadingBlank(_)
DropLeadingBlank(text) ==
    IF text = <<>> THEN <<>>
    ELSE IF IsBlank(Head(text)) THEN DropLeadingBlank(Tail(text))
    ELSE text

RECURSIVE DropTrailingBlank(_)
DropTrailingBlank(text) ==
    IF text = <<>> THEN <<>>
    ELSE IF IsBlank(text[Len(text)])
         THEN DropTrailingBlank(SubSeq(text, 1, Len(text) - 1))
    ELSE text

\* s.strip(): whitespace at both ends goes, and with it the empty
\* paragraphs there
Strip(text) ==
    LET t == DropTrailingBlank(DropLeadingBlank(text))
    IN  IF t = <<>> THEN EmptyText ELSE t

\* s + "..."
AppendEllipsis(ws) ==
    IF ws = <<>> THEN <<[w |-> "", i |-> 0, dots |-> 1]>>
    ELSE [ws EXCEPT ![Len(ws)] = [@ EXCEPT !.dots = @ + 1]]

\* s.endswith("...")
EndsWithEllipsis(text) ==
    LET ws == Words(text)
    IN  /\ ws # <<>>
        /\ ws[Len(ws)].dots > 0
        /\ ~IsBlank(text[Len(text)])

\* The decimal digits of a word's index; a word without index has none
IndexLen(i) == IF i = 0 THEN 0 ELSE IF i < 10 THEN 1 ELSE IF i < 100 THEN 2 ELSE 3

\* len() of one word
WordLen(w) ==
    Len(w.w) + IndexLen(w.i) + 3 * w.dots
    + (IF "c" \in DOMAIN w THEN Len(w.c) ELSE 0)
    + (IF "close" \in DOMAIN w THEN 1 ELSE 0)

\* len() of words joined by one whitespace character each
RECURSIVE WordsLen(_)
WordsLen(ws) ==
    IF ws = <<>> THEN 0
    ELSE WordLen(Head(ws)) + (IF Len(ws) > 1 THEN 1 ELSE 0) + WordsLen(Tail(ws))

\* len(s): the blocks and the blank lines between them; a chart marker ends
\* with a line break
RECURSIVE CharLen(_)
CharLen(text) ==
    IF text = <<>> THEN 0
    ELSE WordsLen(BlockWords(Head(text)))
         + (IF Head(text).k = "chart" THEN 1 ELSE 0)
         + (IF Len(text) > 1 THEN 2 ELSE 0)
         + CharLen(Tail(text))

\* f"{v}": a string as it is, anything else by its repr
Fmt(v) ==
    CASE v.t = "str"  -> Words(v.s)
      [] v.t = "chars" -> IF v.c = <<>> THEN <<>>
                          ELSE <<[w |-> "", i |-> 0, dots |-> 0, c |-> v.c]>>
      [] v.t = "none" -> <<W("None")>>
      [] OTHER        -> <<W("<repr>")>>

\* len(v): a TypeError for None and for a number
PyLen(v) ==
    CASE v.t = "list" -> Ok(Len(v.l))
      [] v.t = "dict" -> Ok(Cardinality(DOMAIN v.d))
      [] v.t = "chars" -> Ok(Len(v.c))
      [] v.t = "str"  -> Ok(CharLen(v.s))
      [] v.t = "none" -> Raise("TypeError")
      [] v.t = "int"  -> Raise("TypeError")
      [] v.t = "bool" -> Raise("TypeError")

(***************************************************************************)
(* agents/summary_agent.py                                                 *)
(***************************************************************************)
WordLimit == 500
SummaryItemLimit == 10
HeadlineLimit == 5

SummaryAgent_extract_search_data(ctx) ==
    IF ~Truthy(ctx) THEN PyNone
    ELSE IF ctx.t = "dict" THEN ctx
    ELSE IF ctx.t = "list" /\ Len(ctx.l) > 0
         THEN (IF ctx.l[1].t = "dict" THEN ctx.l[1] ELSE PyNone)
    ELSE PyNone

\* A line of the news content: whether it starts with three spaces, and its words.
NewsLine(indent, ws) == [indent |-> indent, words |-> ws]

\* The four lines one news item contributes once the parts are joined by "\n".
ItemLines(i, item) ==
    << NewsLine(FALSE, <<Wn("#.", i)>> \o Fmt(Get(item, "title", PyStr(Sentence(<<W("No"), W("title")>>))))),
       NewsLine(TRUE, <<W("Source:")>> \o Fmt(Get(item, "source", PyStr(Sentence(<<W("Unknown")>>))))),
       NewsLine(TRUE, <<W("Summary:")>> \o Fmt(Get(item, "content", PyStr(Sentence(<<W("No"), W("content")>>))))),
       NewsLine(FALSE, <<>>) >>

RECURSIVE JoinItemLines(_, _)
JoinItemLines(items, i) ==
    IF i > Len(items) THEN <<>>
    ELSE ItemLines(i, items[i]) \o JoinItemLines(items, i + 1)

\* The news content as its lines; item.get raises on an item that is no dict,
\* and slicing or iterating a value that is no list of dicts raises too.
SummaryAgent_prepare_news_content(search_data) ==
    LET news_items == Get(search_data, "news_data", PyList(<<>>))
    IN  IF ~Truthy(news_items)
        THEN Ok(<<NewsLine(FALSE, <<W("No"), W("recent"), W("financial"), W("news"), W("available.")>>)>>)
        ELSE IF news_items.t # "list" THEN Raise("TypeError")
        ELSE LET top == SubSeq(news_items.l, 1, Min(SummaryItemLimit, Len(news_items.l)))
             IN  IF \E j \in 1..Len(top) : top[j].t # "dict"
                 THEN Raise("AttributeError")
                 ELSE Ok(JoinItemLines(top, 1))

RECURSIVE Bullets(_)
Bullets(headlines) ==
    IF headlines = <<>> THEN <<>>
    ELSE (<<W("*")>> \o Head(headlines).words) \o Bullets(Tail(headlines))

SummaryAgent_create_manual_summary(news_content) ==
    LET IsHeadline(line) == line.words # <<>> /\ ~line.indent
        headlines == SelectSeq(news_content, IsHeadline)
        top == SubSeq(headlines, 1, Min(HeadlineLimit, Len(headlines)))
    IN  << Para(<<W("Financial"), W("Market"), W("Summary:")>>),
           Para(<<W("Key"), W("developments"), W("in"), W("today's"), W("market:")>>
                \o Bullets(top)),
           Para(<<W("This"), W("summary"), W("was"), W("generated"), W("from"),
                  W("available"), W("financial"), W("news"), W("sources.")>>) >>

\* A cap that keeps one word too many
Truncate_KeepsOneMore(summary) ==
    LET words == Words(summary)
    IN  IF Len(words) > WordLimit
        THEN Sentence(AppendEllipsis(SubSeq(words, 1, WordLimit + 1)))
        ELSE summary

\* The cap on a generated summary: " ".join(words[:500]) + "..."
SummaryAgent_truncate(summary) ==
    LET words == Words(summary)
    IN  IF Len(words) > WordLimit
        THEN Sentence(AppendEllipsis(SubSeq(words, 1, WordLimit)))
        ELSE summary

\* llm: the outcome of litellm's completion(); any failure of the call, or a
\* response without text, ends in the manual summary.
SummaryAgent_generate_llm_summary(news_content, llm) ==
    IF llm.ok
    THEN SummaryAgent_truncate(Strip(llm.content))
    ELSE SummaryAgent_create_manual_summary(news_content)

SummaryAgent_create_fallback_summary ==
    PyDict([summary |-> PyStr(Sentence(
                <<W("Unable"), W("to"), W("generate"), W("market"), W("summary"),
                  W("due"), W("to"), W("lack"), W("of"), W("available"),
                  W("financial"), W("news"), W("data."), W("Please"), W("check"),
                  W("your"), W("news"), W("data"), W("sources"), W("and"),
                  W("API"), W("connections.")>>)),
            timestamp |-> Now,
            word_count |-> PyInt(0),
            source_count |-> PyInt(0),
            status |-> PyStr(Sentence(<<W("fallback")>>))])

SummaryAgent_create_error_summary(e) ==
    PyDict([summary |-> PyStr(Sentence(
                <<W("Error"), W("generating"), W("financial"), W("market"),
                  W("summary:")>> \o ExcWords(e))),
            timestamp |-> Now,
            word_count |-> PyInt(0),
            source_count |-> PyInt(0),
            status |-> PyStr(Sentence(<<W("error")>>)),
            error |-> PyStr(Sentence(ExcWords(e)))])

\* Returns the payload and the external calls made.
SummaryAgent_create_summary(ctx, o) ==
    LET search_data == SummaryAgent_extract_search_data(ctx)
    IN  IF ~Truthy(search_data)
        THEN [val |-> SummaryAgent_create_fallback_summary, calls |-> <<>>]
        ELSE
        LET news_content == SummaryAgent_prepare_news_content(search_data)
        IN  IF ~news_content.ok
            THEN [val |-> SummaryAgent_create_error_summary(news_content.err),
                  calls |-> <<>>]
            ELSE
            LET summary == SummaryAgent_generate_llm_summary(news_content.val, o.llm)
                n == PyLen(Get(search_data, "news_data", PyList(<<>>)))
            IN  IF ~n.ok
                THEN [val |-> SummaryAgent_create_error_summary(n.err),
                      calls |-> <<"litellm.completion">>]
                ELSE [val |-> PyDict([summary |-> PyStr(summary),
                                      timestamp |-> Now,
                                      word_count |-> PyInt(Len(Words(summary))),
                                      source_count |-> PyInt(n.val)]),
                      calls |-> <<"litellm.completion">>]

(***************************************************************************)
(* Process environment                                                     *)
(***************************************************************************)
EnvNames == {"TAVILY_API_KEY", "SERPER_API_KEY", "GROQ_API_KEY",
             "LITELLM_API_KEY", "TELEGRAM_BOT_TOKEN", "TELEGRAM_CHAT_ID"}
Envs == [EnvNames -> BOOLEAN]
FullEnv == [n \in EnvNames |-> TRUE]
NoOracle == [none |-> TRUE]

(***************************************************************************)
(* Inputs of the summarization runs                                        *)
(***************************************************************************)
MaxOver == 2        \* words a generated text may have above the limit
MaxItems == 2       \* news items of an upstream payload

MkWords(n) == [j \in 1..n |-> Wn("w", j)]
WithDots(ws, d) == IF d = 0 \/ ws = <<>> THEN ws ELSE AppendEllipsis(ws)

\* Generated texts: n words, ending in "..." or not, as one paragraph, as
\* two paragraphs, or with blank space around
LlmText(n, d, shape) ==
    LET ws == WithDots(MkWords(n), d)
    IN  CASE shape = "plain"  -> Sentence(ws)
          [] shape = "padded" -> <<Para(<<>>), Para(ws), Para(<<>>)>>
          [] shape = "split"  ->
                IF n < 2 THEN Sentence(ws)
                ELSE <<Para(SubSeq(ws, 1, 1)), Para(SubSeq(ws, 2, n))>>

LlmLens == {0, 1, WordLimit - 1, WordLimit, WordLimit + 1, WordLimit + MaxOver}
LlmTexts == {LlmText(n, d, shape) :
                n \in LlmLens, d \in {0, 1}, shape \in {"plain", "padded", "split"}}
LlmOutcomes(texts) == {[ok |-> FALSE]} \cup {[ok |-> TRUE, content |-> t] : t \in texts}

TitleLens == {0, 1, WordLimit + 1}
NewsItem(title, content, source) ==
    PyDict([title |-> PyStr(title), content |-> PyStr(content),
            url |-> PyStr(Sentence(<<W("https://news.example/a")>>)),
            published_date |-> PyStr(EmptyText),
            source |-> PyStr(Sentence(<<W(source)>>))])
LongItems == {NewsItem(Sentence([j \in 1..n |-> Wn("t", j)]),
                       Sentence(<<W("body")>>), "Tavily") : n \in TitleLens}
SeqsUpTo(S, n) == UNION {[1..m -> S] : m \in 0..n}
SearchPayload(items) ==
    PyDict([news_data |-> PyList(items), timestamp |-> Now,
            search_summary |-> PyStr(Sentence(<<W("Found"), Wn("#", Len(items)),
                 W("relevant"), W("financial"), W("news"), W("items")>>))])
SumContexts ==
    {SearchPayload(items) : items \in SeqsUpTo(LongItems, MaxItems)}
    \cup {PyList(<<SearchPayload(<<>>)>>), PyNone,
          PyDict([news_data |-> PyNone]),
          PyDict([news_data |-> PyList(<<PyStr(Sentence(<<W("headline")>>))>>)])}

(***************************************************************************)
(* Summarization runs: the stage called once on a bounded input            *)
(***************************************************************************)
InitSum ==
    /\ pc = "call"
    /\ env = FullEnv
    /\ context \in SumContexts
    /\ oracle = NoOracle
    /\ result = PyNone
    /\ executed = <<>>
    /\ calls = <<>>
    /\ todo = <<>>
    /\ mode = "raw"
    /\ emitted = PyNone

SumCall ==
    /\ pc = "call"
    /\ \E llm \in LlmOutcomes(LlmTexts) :
          LET o == [llm |-> llm]
              r == SummaryAgent_create_summary(context, o)
          IN  /\ oracle' = o
              /\ result' = r.val
              /\ calls' = r.calls
    /\ executed' = Append(executed, "Summarization")
    /\ pc' = "returned"
    /\ UNCHANGED <<env, context, todo, mode, emitted>>

NextSum == SumCall
SpecSum == InitSum /\ [][NextSum]_vars

\* The summary text of a returned summarization payload
SummaryOf(payload) == payload.d.summary.s
\* The generated text was cut: the model call was made, succeeded, gave more
\* words than the limit, and the stage returned the summary built from it
Truncated ==
    /\ calls # <<>>
    /\ oracle.llm.ok
    /\ ~HasKey(result, "status")
    /\ Len(Words(oracle.llm.content)) > WordLimit

\* C6: for every input and every outcome of the language-model call the
\* returned summary has at most 500 words, and it ends with the ellipsis
\* marker if and only if truncation occurred.
C6_SummaryWithinLimit ==
    pc = "returned" =>
        /\ Len(Words(SummaryOf(result))) <= WordLimit
        /\ (EndsWithEllipsis(SummaryOf(result)) <=> Truncated)

UpperLetters == <<"A", "B", "C", "D", "E", "F", "G", "H", "I", "J", "K", "L", "M",
                  "N", "O", "P", "Q", "R", "S", "T", "U", "V", "W", "X", "Y", "Z">>
LowerLetters == <<"a", "b", "c", "d", "e", "f", "g", "h", "i", "j", "k", "l", "m",
                  "n", "o", "p", "q", "r", "s", "t", "u", "v", "w", "x", "y", "z">>
Digits == {"0", "1", "2", "3", "4", "5", "6", "7", "8", "9"}
UpperSet == {UpperLetters[i] : i \in DOMAIN UpperLetters}
LowerSet == {LowerLetters[i] : i \in DOMAIN LowerLetters}
LowerOf == [c \in UpperSet |->
              LowerLetters[CHOOSE i \in DOMAIN UpperLetters : UpperLetters[i] = c]]
IsUpper(c) == c \in UpperSet
IsLower(c) == c \in LowerSet

\* s.lower()
LowerChar(c) == IF c \in UpperSet THEN LowerOf[c] ELSE c
LowerChars(s) == [i \in 1..Len(s) |-> LowerChar(s[i])]

\* s.endswith(suffix)
EndsWithChars(s, suffix) ==
    /\ Len(s) >= Len(suffix)
    /\ SubSeq(s, Len(s) - Len(suffix) + 1, Len(s)) = suffix

\* sub in s
ContainsChars(s, sub) ==
    \E i \in 1..(Len(s) - Len(sub) + 1) : SubSeq(s, i, i + Len(sub) - 1) = sub

\* s.find(c) + 1: the first position of c, 0 when there is none
FirstIndex(s, cs) ==
    LET hits == {i \in 1..Len(s) : s[i] \in cs}
    IN  IF hits = {} THEN 0 ELSE CHOOSE i \in hits : \A k \in hits : i <= k

\* urlparse(url): the scheme is what precedes the first ":" when that is a
\* letter followed by letters, digits, "+", "-" or "."; the netloc is what
\* follows "//" up to the next "/", "?" or "#".
UrlSchemeEnd(url) ==
    LET i == FirstIndex(url, {":"})
    IN  IF /\ i > 1
           /\ (IsUpper(url[1]) \/ IsLower(url[1]))
           /\ \A j \in 1..(i - 1) :
                 IsUpper(url[j]) \/ IsLower(url[j]) \/ url[j] \in Digits \cup {"+", "-", "."}
        THEN i ELSE 0
UrlScheme(url) == LowerChars(SubSeq(url, 1, UrlSchemeEnd(url) - 1))
UrlNetloc(url) ==
    LET rest == SubSeq(url, UrlSchemeEnd(url) + 1, Len(url))
    IN  IF Len(rest) >= 2 /\ rest[1] = "/" /\ rest[2] = "/"
        THEN LET after == SubSeq(rest, 3, Len(rest))
                 stop == FirstIndex(after, {"/", "?", "#"})
             IN  IF stop = 0 THEN after ELSE SubSeq(after, 1, stop - 1)
        ELSE <<>>

(***************************************************************************)
(* agents/formatting_agent.py                                              *)
(***************************************************************************)
ImagesWanted == 2
TermLimit == 3
TermsPerProvider == 2

image_extensions ==
    << <<".", "j", "p", "g">>, <<".", "j", "p", "e", "g">>, <<".", "p", "n", "g">>,
       <<".", "g", "i", "f">>, <<".", "s", "v", "g">>, <<".", "w", "e", "b", "p">> >>

\* A validity test that does not ask for a scheme and a host
IsValid_NoSchemeCheck(url) ==
    IF url.t # "chars" \/ ~Truthy(url) THEN FALSE
    ELSE LET lower == LowerChars(url.c)
         IN  \/ \E i \in DOMAIN image_extensions :
                   EndsWithChars(lower, image_extensions[i])
             \/ ContainsChars(lower, <<"i", "m", "a", "g", "e">>)

\* A value that is empty, or no string (urlparse raises and the except
\* branch answers False), is no valid image URL.
FormattingAgent_is_valid_image_url(url) ==
    IF url.t # "chars" \/ ~Truthy(url) THEN FALSE
    ELSE IF UrlScheme(url.c) = <<>> \/ UrlNetloc(url.c) = <<>> THEN FALSE
    ELSE LET lower == LowerChars(url.c)
         IN  \/ \E i \in DOMAIN image_extensions :
                   EndsWithChars(lower, image_extensions[i])
             \/ ContainsChars(lower, <<"i", "m", "a", "g", "e">>)

FallbackUrl1 ==
    << "h", "t", "t", "p", "s", ":", "/", "/", "v", "i", "a", ".", "p", "l", "a", "c",
       "e", "h", "o", "l", "d", "e", "r", ".", "c", "o", "m", "/", "6", "0", "0", "x",
       "4", "0", "0", "/", "0", "0", "6", "6", "c", "c", "/", "f", "f", "f", "f", "f",
       "f", "?", "t", "e", "x", "t", "=", "S", "t", "o", "c", "k", "+", "M", "a", "r",
       "k", "e", "t", "+", "C", "h", "a", "r", "t" >>
FallbackUrl2 ==
    << "h", "t", "t", "p", "s", ":", "/", "/", "v", "i", "a", ".", "p", "l", "a", "c",
       "e", "h", "o", "l", "d", "e", "r", ".", "c", "o", "m", "/", "6", "0", "0", "x",
       "4", "0", "0", "/", "0", "0", "9", "9", "0", "0", "/", "f", "f", "f", "f", "f",
       "f", "?", "t", "e", "x", "t", "=", "T", "r", "a", "d", "i", "n", "g", "+", "V",
       "o", "l", "u", "m", "e", "+", "G", "r", "a", "p", "h" >>

ImageDescriptor(url, title, source, term) ==
    PyDict([url |-> url, title |-> PyStr(Sentence(title)),
            source |-> PyStr(Sentence(<<W(source)>>)),
            search_term |-> PyStr(Sentence(term))])

FormattingAgent_get_fallback_images ==
    << ImageDescriptor(PyChars(FallbackUrl1),
           <<W("Stock"), W("Market"), W("Performance"), W("Chart")>>,
           "Fallback", <<W("stock"), W("market")>>),
       ImageDescriptor(PyChars(FallbackUrl2),
           <<W("Trading"), W("Volume"), W("Analysis")>>,
           "Fallback", <<W("trading"), W("volume")>>) >>

\* The vocabulary, each term as its space-separated words
financial_terms ==
    << <<"stock", "market">>, <<"trading">>, <<"earnings">>, <<"S&P", "500">>,
       <<"Dow", "Jones">>, <<"NASDAQ">>, <<"NYSE">>, <<"futures">>,
       <<"commodities">>, <<"bonds">>, <<"forex">>, <<"cryptocurrency">>,
       <<"bitcoin">>, <<"market", "chart">>, <<"financial", "graph">> >>

\* w.lower(), for the words the modelled texts are written with
LowerWord(w) ==
    CASE w = "NASDAQ" -> "nasdaq"
      [] w = "Nasdaq" -> "nasdaq"
      [] w = "NYSE" -> "nyse"
      [] w = "S&P" -> "s&p"
      [] w = "Dow" -> "dow"
      [] w = "Jones" -> "jones"
      [] w = "Bitcoin" -> "bitcoin"
      [] w = "Trading" -> "trading"
      [] w = "Stock" -> "stock"
      [] w = "Market" -> "market"
      [] w = "Financial" -> "financial"
      [] w = "Earnings" -> "earnings"
      [] w = "Bonds" -> "bonds"
      [] w = "Markets" -> "markets"
      [] w = "Outlook" -> "outlook"
      [] OTHER -> w

\* term in summary_lower: the words of the term stand next to each other in
\* one paragraph of the lowered text
TermInLower(term, text) ==
    \E b \in 1..Len(text) :
        /\ text[b].k = "para"
        /\ \E at \in 1..(Len(text[b].words) - Len(term) + 1) :
              \A j \in 1..Len(term) :
                 /\ LowerWord(text[b].words[at + j - 1].w) = term[j]
                 /\ (j < Len(term) => text[b].words[at + j - 1].dots = 0)

TermText(term) == [j \in 1..Len(term) |-> W(term[j])]

\* The vocabulary by character, in the order of financial_terms
financial_term_chars ==
    << <<"s", "t", "o", "c", "k", " ", "m", "a", "r", "k", "e", "t">>,
       <<"t", "r", "a", "d", "i", "n", "g">>,
       <<"e", "a", "r", "n", "i", "n", "g", "s">>,
       <<"S", "&", "P", " ", "5", "0", "0">>,
       <<"D", "o", "w", " ", "J", "o", "n", "e", "s">>,
       <<"N", "A", "S", "D", "A", "Q">>,
       <<"N", "Y", "S", "E">>,
       <<"f", "u", "t", "u", "r", "e", "s">>,
       <<"c", "o", "m", "m", "o", "d", "i", "t", "i", "e", "s">>,
       <<"b", "o", "n", "d", "s">>,
       <<"f", "o", "r", "e", "x">>,
       <<"c", "r", "y", "p", "t", "o", "c", "u", "r", "r", "e", "n", "c", "y">>,
       <<"b", "i", "t", "c", "o", "i", "n">>,
       <<"m", "a", "r", "k", "e", "t", " ", "c", "h", "a", "r", "t">>,
       <<"f", "i", "n", "a", "n", "c", "i", "a", "l", " ", "g", "r", "a", "p", "h">> >>

TermChars(term) ==
    financial_term_chars[CHOOSE k \in DOMAIN financial_terms : financial_terms[k] = term]

default_terms == << <<"stock", "market", "chart">>, <<"financial", "market", "graph">> >>

\* summary_text.lower() raises on a value that is no string.  A string is
\* given by its paragraphs and words, or character by character; `term in
\* summary_lower` on the latter is the substring test itself, the term taken
\* as it is written in the vocabulary.
FormattingAgent_extract_search_terms(summary_text) ==
    IF summary_text.t \notin {"str", "chars"} THEN Raise("AttributeError")
    ELSE LET summary_lower == IF summary_text.t = "chars"
                              THEN LowerChars(summary_text.c) ELSE <<>>
             Mentioned(term) ==
                 IF summary_text.t = "chars"
                 THEN ContainsChars(summary_lower, TermChars(term))
                 ELSE TermInLower(term, summary_text.s)
             found_terms == SelectSeq(financial_terms, Mentioned)
             terms == IF found_terms = <<>> THEN default_terms ELSE found_terms
         IN  Ok(SubSeq(terms, 1, Min(TermLimit, Len(terms))))

\* The descriptor a provider's search appends for a valid URL
ProviderDescriptor(source, url, term) ==
    IF source = "Serper"
    THEN ImageDescriptor(url, TermText(term), "Serper", TermText(term))
    ELSE ImageDescriptor(url, <<W("Financial"), W("Chart"), W("-")>> \o TermText(term),
                         "Tavily", TermText(term))

\* One provider, queried once per term for the first two terms.  answers[j]
\* is the outcome of the j-th request: a failure (transport error, HTTP
\* status, malformed body), or a response with or without a first image.
\* A failure abandons everything the provider gave so far.
RECURSIVE ProviderImages(_, _, _, _)
ProviderImages(terms, answers, j, source) ==
    IF j > Min(TermsPerProvider, Len(terms)) THEN <<>>
    ELSE (IF answers[j].has /\ FormattingAgent_is_valid_image_url(answers[j].url)
          THEN <<ProviderDescriptor(source, answers[j].url, terms[j])>>
          ELSE <<>>)
         \o ProviderImages(terms, answers, j + 1, source)

\* The requests one provider search makes: up to and including the first
\* that fails
RequestsMade(terms, answers) ==
    LET n == Min(TermsPerProvider, Len(terms))
        failed == {j \in 1..n : ~answers[j].ok}
    IN  IF failed = {} THEN n ELSE CHOOSE j \in failed : \A k \in failed : j <= k

FormattingAgent_search_images_serper(search_terms, answers) ==
    LET n == RequestsMade(search_terms, answers)
    IN  [val |-> IF \E j \in 1..n : ~answers[j].ok THEN <<>>
                 ELSE ProviderImages(search_terms, answers, 1, "Serper"),
         calls |-> [j \in 1..n |-> "serper.images"]]

FormattingAgent_search_images_tavily(search_terms, answers) ==
    LET n == RequestsMade(search_terms, answers)
    IN  [val |-> IF \E j \in 1..n : ~answers[j].ok THEN <<>>
                 ELSE ProviderImages(search_terms, answers, 1, "Tavily"),
         calls |-> [j \in 1..n |-> "tavily.images"]]

NoSearch == [val |-> <<>>, calls |-> <<>>]

\* A resolver that returns all it collected
LimitImages_NoSlice(images) == images

\* images[:2]
FormattingAgent_limit_images(images) == SubSeq(images, 1, Min(ImagesWanted, Len(images)))

FormattingAgent_find_financial_images(summary_text, e, o) ==
    LET search_terms == FormattingAgent_extract_search_terms(summary_text)
    IN  IF ~search_terms.ok
        THEN [val |-> FormattingAgent_limit_images(FormattingAgent_get_fallback_images),
              calls |-> <<>>]
        ELSE
        LET serper == IF e["SERPER_API_KEY"]
                      THEN FormattingAgent_search_images_serper(search_terms.val, o.serper_images)
                      ELSE NoSearch
            tavily == IF e["TAVILY_API_KEY"] /\ Len(serper.val) < ImagesWanted
                      THEN FormattingAgent_search_images_tavily(search_terms.val, o.tavily_images)
                      ELSE NoSearch
            found == serper.val \o tavily.val
            images == IF Len(found) < ImagesWanted
                      THEN found \o FormattingAgent_get_fallback_images
                      ELSE found
        IN  [val |-> FormattingAgent_limit_images(images),
             calls |-> serper.calls \o tavily.calls]

\* The first item of a list that is a dict holding the key; None when no
\* item is one
FirstDictWithKey(l, key) ==
    LET hits == {i \in 1..Len(l) : l[i].t = "dict" /\ key \in DOMAIN l[i].d}
    IN  IF hits = {} THEN PyNone
        ELSE l[CHOOSE i \in hits : \A k \in hits : i <= k]

FormattingAgent_extract_summary_data(ctx) ==
    IF ~Truthy(ctx) THEN PyNone
    ELSE IF ctx.t = "dict" THEN ctx
    ELSE IF ctx.t = "list" THEN FirstDictWithKey(ctx.l, "summary")
    ELSE PyNone

\* The list element f"\n\n[Chart: {title}]\n{url}\n" made for one image
ChartElement(image) ==
    [k |-> "chart", title |-> Fmt(image.d.title), url |-> Fmt(image.d.url)]

\* list.insert(at, x), at counted from 0; past the end it appends
InsertAt(l, at, x) ==
    LET n == Min(at, Len(l))
    IN  SubSeq(l, 1, n) \o <<x>> \o SubSeq(l, n + 1, Len(l))

\* '\n\n'.join(paragraphs), read again as blocks: the blank line a chart
\* element starts with leaves an empty paragraph in front of the marker
RECURSIVE JoinParagraphs(_)
JoinParagraphs(l) ==
    IF l = <<>> THEN <<>>
    ELSE (IF Head(l).k = "chart" THEN <<Para(<<>>), Head(l)>> ELSE <<Head(l)>>)
         \o JoinParagraphs(Tail(l))

\* split('\n\n') raises on a value that is no string
FormattingAgent_insert_images_in_summary(summary_text, images) ==
    IF images = <<>> THEN Ok(summary_text)
    ELSE IF summary_text.t # "str" THEN Raise("AttributeError")
    ELSE LET paragraphs == summary_text.s
             first == InsertAt(paragraphs, 1, ChartElement(images[1]))
             second == IF Len(first) >= 3 /\ Len(images) >= 2
                       THEN InsertAt(first, Len(first) \div 2, ChartElement(images[2]))
                       ELSE first
         IN  Ok(PyStr(JoinParagraphs(second)))

FormattingAgent_create_fallback_formatted_content ==
    PyDict([formatted_summary |-> PyStr(Sentence(
                <<W("Unable"), W("to"), W("format"), W("content"), W("due"), W("to"),
                  W("missing"), W("summary"), W("data.")>>)),
            images |-> PyList(<<>>),
            timestamp |-> Now,
            original_summary |-> PyStr(EmptyText),
            status |-> PyStr(Sentence(<<W("fallback")>>))])

FormattingAgent_create_error_formatted_content(e) ==
    PyDict([formatted_summary |-> PyStr(Sentence(
                <<W("Error"), W("formatting"), W("content:")>> \o ExcWords(e))),
            images |-> PyList(<<>>),
            timestamp |-> Now,
            original_summary |-> PyStr(EmptyText),
            status |-> PyStr(Sentence(<<W("error")>>)),
            error |-> PyStr(Sentence(ExcWords(e)))])

\* Returns the payload and the external calls made.
FormattingAgent_format_content(ctx, e, o) ==
    LET summary_data == FormattingAgent_extract_summary_data(ctx)
    IN  IF ~Truthy(summary_data)
        THEN [val |-> FormattingAgent_create_fallback_formatted_content, calls |-> <<>>]
        ELSE
        LET summary_text == Get(summary_data, "summary", PyStr(EmptyText))
            images == FormattingAgent_find_financial_images(summary_text, e, o)
            formatted == FormattingAgent_insert_images_in_summary(summary_text, images.val)
        IN  IF ~formatted.ok
            THEN [val |-> FormattingAgent_create_error_formatted_content(formatted.err),
                  calls |-> images.calls]
            ELSE [val |-> PyDict([formatted_summary |-> formatted.val,
                                  images |-> PyList(images.val),
                                  timestamp |-> Now,
                                  original_summary |-> summary_text]),
                  calls |-> images.calls]

(***************************************************************************)
(* Image-resolver runs: _find_financial_images called once on a bounded    *)
(* text, environment and set of provider answers                           *)
(***************************************************************************)
UrlPng == <<"h", "t", "t", "p", "s", ":", "/", "/", "a", ".", "i", "o", "/", "c", ".", "p", "n", "g">>
UrlImageWord == <<"h", "t", "t", "p", "s", ":", "/", "/", "a", ".", "i", "o", "/", "I", "m", "a", "g", "e", "/", "1">>
UrlNoExt == <<"h", "t", "t", "p", "s", ":", "/", "/", "a", ".", "i", "o", "/", "c", "h", "a", "r", "t">>
UrlRelative == <<"/", "c", ".", "p", "n", "g">>
CandidateUrls == {PyChars(UrlPng), PyChars(UrlImageWord), PyChars(UrlNoExt),
                  PyChars(UrlRelative)}

RequestFailed == [ok |-> FALSE, has |-> FALSE, url |-> PyNone]
NoImage == [ok |-> TRUE, has |-> FALSE, url |-> PyNone]
ImageAnswers(urls) ==
    {RequestFailed, NoImage} \cup {[ok |-> TRUE, has |-> TRUE, url |-> u] : u \in urls}
ImageOracles(urls) ==
    [serper_images : [1..TermsPerProvider -> ImageAnswers(urls)],
     tavily_images : [1..TermsPerProvider -> ImageAnswers(urls)]]

TextOf(ws) == PyStr(Sentence([j \in 1..Len(ws) |-> W(ws[j])]))
ImgTexts ==
    { TextOf(<<"Markets", "closed", "early">>),
      TextOf(<<"Trading", "was", "heavy">>),
      TextOf(<<"stock", "market", "trading", "earnings", "Bitcoin">>),
      PyNone }
\* The environments that differ in the keys a stage reads
EnvsOver(names) == {e \in Envs : \A n \in EnvNames \ names : e[n]}

InitImg ==
    /\ pc = "call"
    /\ env \in EnvsOver({"SERPER_API_KEY", "TAVILY_API_KEY"})
    /\ context \in ImgTexts
    /\ oracle = NoOracle
    /\ result = PyNone
    /\ executed = <<>>
    /\ calls = <<>>
    /\ todo = <<>>
    /\ mode = "raw"
    /\ emitted = PyNone

ImgCall ==
    /\ pc = "call"
    /\ \E o \in ImageOracles(CandidateUrls) :
          LET r == FormattingAgent_find_financial_images(context, env, o)
          IN  /\ oracle' = o
              /\ result' = PyList(r.val)
              /\ calls' = r.calls
    /\ executed' = Append(executed, "find_financial_images")
    /\ pc' = "returned"
    /\ UNCHANGED <<env, context, todo, mode, emitted>>

NextImg == ImgCall
SpecImg == InitImg /\ [][NextImg]_vars

DescriptorKeys == {"url", "title", "source", "search_term"}
IsDescriptor(v) == v.t = "dict" /\ DOMAIN v.d = DescriptorKeys
SourceOf(v) == v.d.source.s[1].words[1].w
IsAbsoluteUrl(url) ==
    url.t = "chars" /\ UrlScheme(url.c) # <<>> /\ UrlNetloc(url.c) # <<>>

\* C1: the image resolver returns exactly 2 image descriptors for every
\* input text and every combination of provider availability, provider
\* failure and provider result count.
C1_ExactlyTwoImages ==
    pc = "returned" =>
        /\ result.t = "list"
        /\ Len(result.l) = ImagesWanted
        /\ \A i \in 1..Len(result.l) : IsDescriptor(result.l[i])

\* Both providers answered and gave three valid images between them.
C1_Witness ==
    /\ pc = "returned"
    /\ Len(calls) = 2 * TermsPerProvider
    /\ \A j \in 1..TermsPerProvider :
          FormattingAgent_is_valid_image_url(oracle.tavily_images[j].url)
    /\ SourceOf(result.l[1]) = "Serper"
    /\ SourceOf(result.l[2]) = "Tavily"

target_languages == <<"hindi", "arabic", "hebrew">>

\* The name of a language, written in its own script
LanguageName(lang) == PyStr(Sentence(<<W("<name of " \o lang \o ">")>>))

TranslatingAgent_extract_formatted_data(ctx) ==
    IF ~Truthy(ctx) THEN PyNone
    ELSE IF ctx.t = "dict" THEN ctx
    ELSE IF ctx.t = "list" THEN FirstDictWithKey(ctx.l, "formatted_summary")
    ELSE PyNone

\* f"{fallback_message}\n\n[Original Content]\n{original_content}"
TranslatingAgent_create_fallback_translation(content, lang) ==
    LET body == IF content.t = "str" THEN content.s ELSE <<Para(Fmt(content))>>
    IN  PyStr(<< Para(<<W("<service unavailable, in " \o lang \o ">")>>),
                 Para(<<W("[Original"), W("Content]")>> \o BlockWords(Head(body))) >>
              \o Tail(body))

\* A translation step whose fallback is the notice alone
TranslateToLanguage_NoticeOnly(content, lang, answer) ==
    IF answer.ok THEN PyStr(Strip(answer.content))
    ELSE PyStr(<<Para(<<W("<service unavailable, in " \o lang \o ">")>>)>>)

\* answer: the outcome of litellm's completion() for one language; a failure
\* of the call, or a response without text, ends in the fallback translation
TranslatingAgent_translate_to_language(content, lang, answer) ==
    IF answer.ok THEN PyStr(Strip(answer.content))
    ELSE TranslatingAgent_create_fallback_translation(content, lang)

\* A fallback bundle whose entries repeat the bundle's empty original content
FallbackTranslations_EmptyContent ==
    LET entry(lang) ==
            PyDict([language |-> LanguageName(lang),
                    content |-> PyStr(EmptyText),
                    images |-> PyList(<<>>),
                    status |-> PyStr(Sentence(<<W("fallback")>>))])
    IN  PyDict([original_content |-> PyStr(EmptyText),
                translations |-> PyDict([hindi |-> entry("hindi"),
                                        arabic |-> entry("arabic"),
                                        hebrew |-> entry("hebrew")]),
                timestamp |-> Now,
                images |-> PyList(<<>>),
                status |-> PyStr(Sentence(<<W("fallback")>>))])

TranslatingAgent_create_fallback_translations ==
    LET entry(lang) ==
            PyDict([language |-> LanguageName(lang),
                    content |-> PyStr(Sentence(<<W("No"), W("content"), W("available"),
                                                 W("for"), W("translation.")>>)),
                    images |-> PyList(<<>>),
                    status |-> PyStr(Sentence(<<W("fallback")>>))])
    IN  PyDict([original_content |-> PyStr(EmptyText),
                translations |-> PyDict([hindi |-> entry("hindi"),
                                        arabic |-> entry("arabic"),
                                        hebrew |-> entry("hebrew")]),
                timestamp |-> Now,
                images |-> PyList(<<>>),
                status |-> PyStr(Sentence(<<W("fallback")>>))])

TranslatingAgent_create_error_translations(e) ==
    LET entry(lang) ==
            PyDict([language |-> LanguageName(lang),
                    content |-> PyStr(Sentence(<<W("Translation"), W("error:")>>
                                               \o ExcWords(e))),
                    images |-> PyList(<<>>),
                    status |-> PyStr(Sentence(<<W("error")>>)),
                    error |-> PyStr(Sentence(ExcWords(e)))])
    IN  PyDict([original_content |-> PyStr(EmptyText),
                translations |-> PyDict([hindi |-> entry("hindi"),
                                        arabic |-> entry("arabic"),
                                        hebrew |-> entry("hebrew")]),
                timestamp |-> Now,
                images |-> PyList(<<>>),
                status |-> PyStr(Sentence(<<W("error")>>)),
                error |-> PyStr(Sentence(ExcWords(e)))])

\* Returns the payload and the external calls made: one completion per
\* language, in the order of target_languages.
TranslatingAgent_translate_content(ctx, o) ==
    LET formatted_data == TranslatingAgent_extract_formatted_data(ctx)
    IN  IF ~Truthy(formatted_data)
        THEN [val |-> TranslatingAgent_create_fallback_translations, calls |-> <<>>]
        ELSE
        LET formatted_summary == Get(formatted_data, "formatted_summary", PyStr(EmptyText))
            images == Get(formatted_data, "images", PyList(<<>>))
            entry(i) ==
                PyDict([language |-> LanguageName(target_languages[i]),
                        content |-> TranslatingAgent_translate_to_language(
                                        formatted_summary, target_languages[i],
                                        o.translate[i]),
                        images |-> images])
        IN  [val |-> PyDict([original_content |-> formatted_summary,
                             translations |-> PyDict([hindi |-> entry(1), arabic |-> entry(2),
                                                     hebrew |-> entry(3)]),
                             timestamp |-> Now,
                             images |-> images]),
             calls |-> [i \in DOMAIN target_languages |-> "litellm.completion"]]

(***************************************************************************)
(* agents/send_agent.py                                                    *)
(***************************************************************************)
TelegramLimit == 2000

SendAgent_extract_formatted_data(ctx) ==
    IF ~Truthy(ctx) THEN PyNone
    ELSE IF ctx.t = "dict" THEN ctx
    ELSE IF ctx.t = "list" THEN FirstDictWithKey(ctx.l, "formatted_summary")
    ELSE PyNone

\* A report step that reports success whatever create_report did
CreatePdfReport_AlwaysSuccess(formatted_data, pdf) ==
    [success |-> PyBool(TRUE),
     file_path |-> PyStr(Sentence(<<W("reports/financial_summary_<now>.pdf")>>))]

\* pdf: the outcome of PDFGenerator.create_report, which writes the file or
\* raises
SendAgent_create_pdf_report(formatted_data, pdf) ==
    IF pdf.ok
    THEN [success |-> PyBool(TRUE),
          file_path |-> PyStr(Sentence(<<W("reports/financial_summary_<now>.pdf")>>))]
    ELSE [success |-> PyBool(FALSE), file_path |-> PyStr(EmptyText)]

\* The text of the main message: the heading line, the date line, then the
\* formatted summary, cut after 2000 characters and marked "..." when it is
\* longer, then a blank line
TelegramMessage(formatted_summary) ==
    LET n == CharLen(formatted_summary.s)
    IN  [heading |-> <<W("Financial"), W("Market"), W("Summary")>>,
         body |-> formatted_summary.s,
         kept |-> Min(n, TelegramLimit),
         cut |-> n > TelegramLimit]

\* len(%B) of the day the message is built: "May" to "September"
MonthLens == {Len("May"), Len("September")}

\* len(message) on a day whose month name has month_len letters: the
\* heading line (a sign, a space, the starred title, a line break), the date
\* line (a sign, a space, "%B %d, %Y", two line breaks), the characters kept
\* of the summary, and "...\n\n" or "\n\n"
TelegramMessageLen(message, month_len) ==
    (2 + Len("*Financial Market Summary*") + 1)
    + (2 + month_len + Len(" 05, 2026") + 2)
    + message.kept
    + (IF message.cut THEN Len("...") + 2 ELSE 2)

\* A sender that takes every answer of the service for an acceptance
SendMessage_AnyAnswerCounts(sent) ==
    IF sent \in {"accepted", "refused"}
    THEN [success |-> PyBool(TRUE), message_id |-> PyInt(1)]
    ELSE [success |-> PyBool(FALSE), message_id |-> PyStr(EmptyText)]

\* sent: the outcome of the sendMessage request: accepted with a message id,
\* refused by the service, or failed (transport error, HTTP status)
SendAgent_send_telegram_message(sent) ==
    IF sent = "accepted"
    THEN [success |-> PyBool(TRUE), message_id |-> PyInt(1)]
    ELSE [success |-> PyBool(FALSE), message_id |-> PyStr(EmptyText)]

\* answer: the outcome of the sendPhoto request.  An item that is no dict
\* fails inside the try block before any request is made.
SendAgent_send_telegram_image(image_data, answer) ==
    image_data.t = "dict" /\ answer = "accepted"

\* The sendPhoto requests made for images[:2]: one per item that is a dict
PhotoCalls(images) ==
    LET top == SubSeq(images, 1, Min(2, Len(images)))
        dicts == SelectSeq(top, LAMBDA x : x.t = "dict")
    IN  [i \in 1..Len(dicts) |-> "telegram.sendPhoto"]

\* What _send_telegram_image returned for each of images[:2]; the loop
\* drops these values
PhotoResults(images, answers) ==
    [i \in 1..Min(2, Len(images)) |-> SendAgent_send_telegram_image(images[i], answers[i])]

TelegramFailed == [success |-> PyBool(FALSE), message_id |-> PyStr(EmptyText)]

\* What went out: the text, and for each photo whether it was accepted
Sent(message, photos) == [t |-> "telegram", text |-> message, photos |-> photos]

\* Returns the result, what was sent (None when nothing was) and the calls.
SendAgent_send_to_telegram(formatted_data, e, o) ==
    IF ~e["TELEGRAM_BOT_TOKEN"] \/ ~e["TELEGRAM_CHAT_ID"]
    THEN [val |-> TelegramFailed, message |-> PyNone, calls |-> <<>>]
    ELSE
    LET formatted_summary == Get(formatted_data, "formatted_summary", PyStr(EmptyText))
        images == Get(formatted_data, "images", PyList(<<>>))
    IN  IF formatted_summary.t # "str"
        THEN \* len() or the concatenation raises before anything is sent
             [val |-> TelegramFailed, message |-> PyNone, calls |-> <<>>]
        ELSE
        LET message == TelegramMessage(formatted_summary)
            main_result == SendAgent_send_telegram_message(o.telegram)
        IN  IF images.t = "list"
            THEN [val |-> main_result,
                  message |-> Sent(message, PhotoResults(images.l, o.photos)),
                  calls |-> <<"telegram.sendMessage">> \o PhotoCalls(images.l)]
            ELSE IF images.t = "str"
            THEN \* the characters of a string are no dicts: no photo request
                 [val |-> main_result,
                  message |-> Sent(message, [i \in 1..Min(2, CharLen(images.s)) |-> FALSE]),
                  calls |-> <<"telegram.sendMessage">>]
            ELSE \* images[:2] raises after the text went out
                 [val |-> TelegramFailed, message |-> Sent(message, <<>>),
                  calls |-> <<"telegram.sendMessage">>]

\* A fallback result that leaves the message id out
FallbackDistribution_NoMessageId ==
    PyDict([pdf_created |-> PyBool(FALSE),
            pdf_path |-> PyStr(EmptyText),
            telegram_sent |-> PyBool(FALSE),
            timestamp |-> Now,
            content_type |-> PyStr(Sentence(<<W("English-only")>>)),
            images_included |-> PyInt(0),
            status |-> PyStr(Sentence(<<W("fallback")>>))])

SendAgent_create_fallback_distribution ==
    PyDict([pdf_created |-> PyBool(FALSE),
            pdf_path |-> PyStr(EmptyText),
            telegram_sent |-> PyBool(FALSE),
            telegram_message_id |-> PyStr(EmptyText),
            timestamp |-> Now,
            content_type |-> PyStr(Sentence(<<W("English-only")>>)),
            images_included |-> PyInt(0),
            status |-> PyStr(Sentence(<<W("fallback")>>)),
            message |-> PyStr(Sentence(<<W("No"), W("formatted"), W("data"),
                                         W("available"), W("for"), W("distribution")>>))])

SendAgent_create_error_distribution(e) ==
    PyDict([pdf_created |-> PyBool(FALSE),
            pdf_path |-> PyStr(EmptyText),
            telegram_sent |-> PyBool(FALSE),
            telegram_message_id |-> PyStr(EmptyText),
            timestamp |-> Now,
            content_type |-> PyStr(Sentence(<<W("English-only")>>)),
            images_included |-> PyInt(0),
            status |-> PyStr(Sentence(<<W("error")>>)),
            error |-> PyStr(Sentence(ExcWords(e))),
            message |-> PyStr(Sentence(<<W("Distribution"), W("failed:")>>
                                       \o ExcWords(e)))])

\* Returns the payload, the message sent to Telegram and the external calls
\* made.
SendAgent_distribute_report(ctx, e, o) ==
    LET formatted_data == SendAgent_extract_formatted_data(ctx)
    IN  IF ~Truthy(formatted_data)
        THEN [val |-> SendAgent_create_fallback_distribution,
              message |-> PyNone, calls |-> <<>>]
        ELSE
        LET pdf_result == SendAgent_create_pdf_report(formatted_data, o.pdf)
            telegram_result == SendAgent_send_to_telegram(formatted_data, e, o)
            n == PyLen(Get(formatted_data, "images", PyList(<<>>)))
            made == <<"pdf.create_report">> \o telegram_result.calls
        IN  IF ~n.ok
            THEN [val |-> SendAgent_create_error_distribution(n.err),
                  message |-> telegram_result.message, calls |-> made]
            ELSE [val |-> PyDict([pdf_created |-> pdf_result.success,
                                  pdf_path |-> pdf_result.file_path,
                                  telegram_sent |-> telegram_result.val.success,
                                  telegram_message_id |-> telegram_result.val.message_id,
                                  timestamp |-> Now,
                                  content_type |-> PyStr(Sentence(<<W("English-only")>>)),
                                  images_included |-> PyInt(n.val)]),
                  message |-> telegram_result.message, calls |-> made]

(***************************************************************************)
(* agents/search_agent.py                                                  *)
(***************************************************************************)
EnoughNews == 10     \* Serper is asked only while fewer items are collected
MaxResults == 10     \* the number of results each provider is asked for
GroqItemLimit == 5   \* the items the enhancement prompt is built from

\* The item made of the j-th result of a provider
ProviderNewsItem(source, j) ==
    NewsItem(Sentence(<<Wn(source, j)>>), Sentence(<<W("body"), Wn(source, j)>>), source)

\* answer: the outcome of the search request: a failure (transport error,
\* HTTP status, malformed body) or a response with n results
SearchAgent_search_tavily(answer) ==
    IF answer.ok THEN [j \in 1..answer.n |-> ProviderNewsItem("Tavily", j)] ELSE <<>>

SearchAgent_search_serper(answer) ==
    IF answer.ok THEN [j \in 1..answer.n |-> ProviderNewsItem("Serper", j)] ELSE <<>>

\* answer: the outcome of the completion: a failure, or a text
SearchAgent_enhance_with_groq(news_data, answer) ==
    IF answer.ok
    THEN Append(news_data,
                PyDict([title |-> PyStr(Sentence(<<W("AI-Enhanced"), W("Market"),
                                                   W("Analysis")>>)),
                        content |-> PyStr(Sentence(
                            <<W("<analysis of the first"),
                              Wn("items>", Min(GroqItemLimit, Len(news_data)))>>)),
                        url |-> PyStr(EmptyText),
                        published_date |-> Now,
                        source |-> PyStr(Sentence(<<W("Groq"), W("AI")>>))]))
    ELSE news_data

\* A search that asks Serper whatever Tavily returned
ExecuteSearch_SerperAlways(ctx, e, o) ==
    LET tavily == IF e["TAVILY_API_KEY"] THEN SearchAgent_search_tavily(o.tavily_news)
                  ELSE <<>>
        collected == IF e["SERPER_API_KEY"]
                     THEN tavily \o SearchAgent_search_serper(o.serper_news)
                     ELSE tavily
    IN  [val |-> SearchPayload(collected),
         calls |-> (IF e["TAVILY_API_KEY"] THEN <<"tavily.search">> ELSE <<>>)
                   \o (IF e["SERPER_API_KEY"] THEN <<"serper.search">> ELSE <<>>)]

\* Returns the payload and the external calls made.  The helpers catch every
\* exception themselves, so the except branch of execute_search (empty list
\* and an error field) is not taken.
SearchAgent_execute_search(ctx, e, o) ==
    LET tavily == IF e["TAVILY_API_KEY"] THEN SearchAgent_search_tavily(o.tavily_news)
                  ELSE <<>>
        ask_serper == e["SERPER_API_KEY"] /\ Len(tavily) < EnoughNews
        collected == IF ask_serper THEN tavily \o SearchAgent_search_serper(o.serper_news)
                     ELSE tavily
        ask_groq == e["GROQ_API_KEY"] /\ collected # <<>>
        news_data == IF ask_groq THEN SearchAgent_enhance_with_groq(collected, o.groq)
                     ELSE collected
    IN  [val |-> SearchPayload(news_data),
         calls |-> (IF e["TAVILY_API_KEY"] THEN <<"tavily.search">> ELSE <<>>)
                   \o (IF ask_serper THEN <<"serper.search">> ELSE <<>>)
                   \o (IF ask_groq THEN <<"groq.completion">> ELSE <<>>)]

(***************************************************************************)
(* main.py: the crew and its sequential run                                *)
(***************************************************************************)
\* The stages by the names the specification gives them: Retrieval is
\* SearchAgent.execute_search, Summarization SummaryAgent.create_summary,
\* Formatting FormattingAgent.format_content, Translation
\* TranslatingAgent.translate_content, Distribution SendAgent.distribute_report.
required_env_vars ==
    {"TAVILY_API_KEY", "TELEGRAM_BOT_TOKEN", "TELEGRAM_CHAT_ID", "LITELLM_API_KEY"}

\* The tasks of the crew main() builds, in order
crew_tasks == <<"Retrieval", "Summarization", "Formatting", "Distribution">>

\* The five stages chained as the stage context protocol chains them
FiveStages == <<"Retrieval", "Summarization", "Formatting", "Translation", "Distribution">>

\* What a stage finds in its context argument: the payload itself, a list
\* holding it, or nothing (the argument's default)
HandoffModes == {"raw", "list", "none"}
Handoff(payload) ==
    CASE mode = "raw"  -> payload
      [] mode = "list" -> PyList(<<payload>>)
      [] mode = "none" -> PyNone

\* The upstream value of the stage about to run
Upstream == IF executed = <<>> THEN context ELSE Handoff(result)

(***************************************************************************)
(* Outcomes of the external calls of one stage                             *)
(***************************************************************************)
Unasked == [asked |-> FALSE]
NewsAnswers(counts) == {[ok |-> FALSE, n |-> 0]} \cup {[ok |-> TRUE, n |-> n] : n \in counts}
SearchOracles(e) ==
    {[tavily_news |-> t, serper_news |-> s, groq |-> g] :
        t \in IF e["TAVILY_API_KEY"] THEN NewsAnswers({0, 1, MaxResults}) ELSE {Unasked},
        s \in IF e["SERPER_API_KEY"] THEN NewsAnswers({0, 1}) ELSE {Unasked},
        g \in IF e["GROQ_API_KEY"] THEN {[ok |-> FALSE], [ok |-> TRUE]} ELSE {Unasked}}

\* Generated summaries: one paragraph, and three paragraphs naming a term of
\* the vocabulary
ShortTexts ==
    { Sentence(<<W("Markets"), W("were"), W("calm.")>>),
      << Para(<<W("Stock"), W("market"), W("rallied.")>>),
         Para(<<W("Bonds"), W("fell.")>>),
         Para(<<W("Outlook"), W("steady.")>>) >> }
SummaryOracles == {[llm |-> a] : a \in LlmOutcomes(ShortTexts)}

BothRequests(a) == [j \in 1..TermsPerProvider |-> a]
StageImageAnswers == {BothRequests(RequestFailed),
                      BothRequests([ok |-> TRUE, has |-> TRUE, url |-> PyChars(UrlPng)])}
FormattingOracles(e) ==
    {[serper_images |-> s, tavily_images |-> t] :
        s \in IF e["SERPER_API_KEY"] THEN StageImageAnswers ELSE {Unasked},
        t \in IF e["TAVILY_API_KEY"] THEN StageImageAnswers ELSE {Unasked}}

TranslationAnswers ==
    {[ok |-> FALSE], [ok |-> TRUE, content |-> Sentence(<<W("<translated>")>>)]}
TranslationOracles == {[translate |-> a] : a \in [DOMAIN target_languages -> TranslationAnswers]}

\* The answers to the two sendPhoto requests: both accepted, or one failed
PhotoAnswers == {<<"accepted", "accepted">>, <<"failed", "accepted">>,
                 <<"accepted", "failed">>}

DistributionOracles(e) ==
    {[pdf |-> p, telegram |-> t, photos |-> ph] :
        p \in {[ok |-> TRUE], [ok |-> FALSE]},
        t \in IF e["TELEGRAM_BOT_TOKEN"] /\ e["TELEGRAM_CHAT_ID"]
              THEN {"accepted", "refused", "failed"} ELSE {"unasked"},
        ph \in IF e["TELEGRAM_BOT_TOKEN"] /\ e["TELEGRAM_CHAT_ID"]
               THEN PhotoAnswers ELSE {<<"unasked", "unasked">>}}

(***************************************************************************)
(* The stages as steps of a run                                            *)
(***************************************************************************)
\* A stage whose callable let an exception out would end the run
Finish(stage, up, o, r) ==
    /\ context' = up
    /\ oracle' = o
    /\ result' = r.val
    /\ calls' = r.calls
    /\ executed' = Append(executed, stage)
    /\ todo' = Tail(todo)
    /\ pc' = IF r.val.t = "exception" THEN "crashed"
             ELSE IF Tail(todo) = <<>> THEN "done" ELSE "run"
    /\ emitted' = IF "message" \in DOMAIN r THEN r.message ELSE PyNone
    /\ UNCHANGED <<env, mode>>

IsNext(stage) == pc = "run" /\ todo # <<>> /\ Head(todo) = stage

Retrieval ==
    /\ IsNext("Retrieval")
    /\ \E o \in SearchOracles(env) :
          Finish("Retrieval", Upstream, o, SearchAgent_execute_search(Upstream, env, o))

Summarization ==
    /\ IsNext("Summarization")
    /\ \E o \in SummaryOracles :
          Finish("Summarization", Upstream, o, SummaryAgent_create_summary(Upstream, o))

Formatting ==
    /\ IsNext("Formatting")
    /\ \E o \in FormattingOracles(env) :
          Finish("Formatting", Upstream, o, FormattingAgent_format_content(Upstream, env, o))

Translation ==
    /\ IsNext("Translation")
    /\ \E o \in TranslationOracles :
          Finish("Translation", Upstream, o, TranslatingAgent_translate_content(Upstream, o))

Distribution ==
    /\ IsNext("Distribution")
    /\ \E o \in DistributionOracles(env) :
          Finish("Distribution", Upstream, o, SendAgent_distribute_report(Upstream, env, o))

\* main(): a missing required variable ends the process before any agent is
\* built
MainExit ==
    /\ pc = "main"
    /\ \E v \in required_env_vars : ~env[v]
    /\ pc' = "exit"
    /\ UNCHANGED <<env, context, oracle, result, executed, calls, todo, mode, emitted>>

\* main(): crew.kickoff() with the four tasks
MainKickoff ==
    /\ pc = "main"
    /\ \A v \in required_env_vars : env[v]
    /\ pc' = "run"
    /\ todo' = crew_tasks
    /\ UNCHANGED <<env, context, oracle, result, executed, calls, mode, emitted>>

Init ==
    /\ pc = "main"
    /\ env \in Envs
    /\ context = PyNone
    /\ oracle = NoOracle
    /\ result = PyNone
    /\ executed = <<>>
    /\ calls = <<>>
    /\ todo = <<>>
    /\ mode \in HandoffModes
    /\ emitted = PyNone

Next == MainExit \/ MainKickoff \/ Retrieval \/ Summarization \/ Formatting \/ Distribution
Spec == Init /\ [][Next]_vars

(***************************************************************************)
(* One stage called on a bounded upstream value                            *)
(***************************************************************************)
ProtocolStages == {"Summarization", "Formatting", "Translation", "Distribution"}

RequiredKey(stage) ==
    CASE stage = "Summarization" -> "news_data"
      [] stage = "Formatting"    -> "summary"
      [] stage = "Translation"   -> "formatted_summary"
      [] stage = "Distribution"  -> "formatted_summary"

ExtractOf(stage, ctx) ==
    CASE stage = "Summarization" -> SummaryAgent_extract_search_data(ctx)
      [] stage = "Formatting"    -> FormattingAgent_extract_summary_data(ctx)
      [] stage = "Translation"   -> TranslatingAgent_extract_formatted_data(ctx)
      [] stage = "Distribution"  -> SendAgent_extract_formatted_data(ctx)

FallbackOf(stage) ==
    CASE stage = "Summarization" -> SummaryAgent_create_fallback_summary
      [] stage = "Formatting"    -> FormattingAgent_create_fallback_formatted_content
      [] stage = "Translation"   -> TranslatingAgent_create_fallback_translations
      [] stage = "Distribution"  -> SendAgent_create_fallback_distribution

\* A payload of the stage before, as that stage returns it
GoodRecord(stage) ==
    CASE stage = "Summarization" -> SearchPayload(<<ProviderNewsItem("Tavily", 1)>>)
      [] stage = "Formatting" ->
            PyDict([summary |-> PyStr(Sentence(<<W("Markets"), W("were"), W("calm.")>>)),
                    timestamp |-> Now, word_count |-> PyInt(3), source_count |-> PyInt(1)])
      [] OTHER ->
            PyDict([formatted_summary |->
                        PyStr(Sentence(<<W("Markets"), W("were"), W("calm.")>>)),
                    images |-> PyList(FormattingAgent_get_fallback_images),
                    timestamp |-> Now,
                    original_summary |->
                        PyStr(Sentence(<<W("Markets"), W("were"), W("calm.")>>))])

\* Non-empty records without the stage's key: a stray record, and the payload
\* of another stage
StrayRecord == PyDict([note |-> PyStr(Sentence(<<W("n/a")>>))])
LackingRecords(stage) ==
    {StrayRecord,
     IF stage = "Summarization" THEN SummaryAgent_create_fallback_summary
     ELSE IF stage = "Formatting" THEN SearchPayload(<<>>)
     ELSE TranslatingAgent_create_fallback_translations}

StageInputs(stage) ==
    {PyNone, PyDict(EmptyDict), PyList(<<>>), PyList(<<PyNone>>),
     PyList(<<StrayRecord>>),
     GoodRecord(stage),
     PyList(<<GoodRecord(stage)>>),
     PyList(<<StrayRecord, GoodRecord(stage)>>),
     PyList(<<PyNone, StrayRecord, GoodRecord(stage), StrayRecord>>)}
    \cup LackingRecords(stage)

InitStage ==
    /\ pc = "run"
    /\ env = FullEnv
    /\ \E stage \in ProtocolStages :
          /\ todo = <<stage>>
          /\ context \in StageInputs(stage)
    /\ oracle = NoOracle
    /\ result = PyNone
    /\ executed = <<>>
    /\ calls = <<>>
    /\ mode = "raw"
    /\ emitted = PyNone

NextStage == Summarization \/ Formatting \/ Translation \/ Distribution
SpecStage == InitStage /\ [][NextStage]_vars

\* The stage that ran, once it has returned
Returned == pc \in {"done", "crashed"} /\ Len(executed) = 1
StageRun == executed[1]

\* The upstream values that carry no usable record
IsMissing(stage, ctx) ==
    \/ ctx = PyNone
    \/ ctx = PyDict(EmptyDict)
    \/ ctx.t = "list" /\ FirstDictWithKey(ctx.l, RequiredKey(stage)) = PyNone

\* C3: each of the Summarization, Formatting, Translation and Distribution
\* stages, called with None, an empty record or a list containing no record
\* with the stage's required key, returns its fallback payload and never
\* raises.
C3_FallbackOnMissingInput ==
    (Returned /\ IsMissing(StageRun, context)) =>
        /\ pc = "done"
        /\ result = FallbackOf(StageRun)

\* C4: when the upstream value is an ordered sequence, every stage's
\* extraction returns the first element, at any position, that is a record
\* containing the stage's required key, and None when no element is such a
\* record.
C4_ExtractFirstRecordWithKey ==
    (Returned /\ context.t = "list") =>
        ExtractOf(StageRun, context) = FirstDictWithKey(context.l, RequiredKey(StageRun))

\* C5: a stage that receives a single non-empty record lacking its required
\* key returns its fallback payload, tagged status=fallback, and makes no
\* provider call.
C5_RecordWithoutKeyIsMissing ==
    (Returned /\ context.t = "dict" /\ Truthy(context)
        /\ ~HasKey(context, RequiredKey(StageRun))) =>
        /\ result = FallbackOf(StageRun)
        /\ result.d.status = PyStr(Sentence(<<W("fallback")>>))
        /\ calls = <<>>

(***************************************************************************)
(* The stages chained: each given what the stage before returned           *)
(***************************************************************************)
OnlyRequired == [n \in EnvNames |-> n \in required_env_vars]
NoTelegram == [n \in EnvNames |-> n \notin {"TELEGRAM_BOT_TOKEN", "TELEGRAM_CHAT_ID"}]
NoKeys == [n \in EnvNames |-> FALSE]
ChainEnvs == {FullEnv, OnlyRequired, NoTelegram, NoKeys}

\* A chain from one of its stages on: the five stages, and the four that
\* main() puts in its crew
Suffixes(chain) == {SubSeq(chain, k, Len(chain)) : k \in 1..Len(chain)}
ChainsFrom == Suffixes(FiveStages) \cup Suffixes(crew_tasks)

InitChain ==
    /\ pc = "run"
    /\ env \in ChainEnvs
    /\ context = PyNone
    /\ oracle = NoOracle
    /\ result = PyNone
    /\ executed = <<>>
    /\ calls = <<>>
    /\ todo \in ChainsFrom
    /\ mode \in HandoffModes
    /\ emitted = PyNone

NextChain == Retrieval \/ Summarization \/ Formatting \/ Translation \/ Distribution
SpecChain == InitChain /\ [][NextChain]_vars

DistributionFields ==
    {"pdf_created", "pdf_path", "telegram_sent", "telegram_message_id", "timestamp",
     "images_included"}

IsDistributionResult(v) ==
    /\ v.t = "dict"
    /\ DistributionFields \subseteq DOMAIN v.d
    /\ v.d.pdf_created.t = "bool"
    /\ v.d.telegram_sent.t = "bool"
    /\ v.d.images_included.t = "int"

\* C8: when the stages are chained, whatever providers fail, credentials are
\* missing or earlier stages fall back, no stage lets an exception out, a
\* stage is due as long as the run has not ended, every step runs the stage
\* that is due and leaves one stage fewer to run, and the run ends with the
\* Distribution stage returning a result that carries pdf_created, pdf_path,
\* telegram_sent, telegram_message_id, timestamp and images_included.
C8_ChainCompletes ==
    /\ [](/\ pc \in {"run", "done"}
          /\ pc = "run" => todo # <<>>
          /\ pc = "done" => /\ todo = <<>>
                            /\ executed[Len(executed)] = "Distribution"
                            /\ IsDistributionResult(result))
    /\ [][/\ executed' = Append(executed, Head(todo))
          /\ todo' = Tail(todo)
          /\ result'.t = "dict"]_vars

\* Distribution returned its fields after the stage before it fell back
C8_Witness ==
    /\ pc = "done"
    /\ Len(executed) >= 2
    /\ executed[Len(executed)] = "Distribution"
    /\ context.t = "dict"
    /\ HasKey(context, "status")
    /\ IsDistributionResult(result)
    /\ ~HasKey(result, "status")

\* C10: when the Retrieval stage ends with 0 news items, its payload has an
\* empty news_data list and an error field set.
C10_NoNewsSetsError ==
    (executed = <<"Retrieval">> /\ result.d.news_data.l = <<>>) =>
        HasKey(result, "error")

\* C9: one pipeline run executes the five stages Retrieval, Summarization,
\* Formatting, Translation and Distribution, each exactly once and in that
\* order.
C9_FiveStagesInOrder ==
    pc = "done" => executed = FiveStages

(***************************************************************************)
(* The provider-fallback fetchers: news search and image search            *)
(***************************************************************************)
LastStage == IF executed = <<>> THEN "" ELSE executed[Len(executed)]

\* The news fetcher ran and returned: execute_search is the whole fetcher
NewsFetched == LastStage = "Retrieval" /\ pc # "crashed"

\* The image fetcher ran inside format_content and its list was returned
ImagesFetched ==
    /\ LastStage = "Formatting"
    /\ pc # "crashed"
    /\ ~HasKey(result, "status")

\* C11: each provider-fallback fetcher never raises and never returns fewer
\* results than its minimum: the news search (execute_search) at least 10
\* items, the image search (_find_financial_images) at least 2 descriptors.
C11_FetcherMeetsMinimum ==
    /\ LastStage \in {"Retrieval", "Formatting"} => pc # "crashed"
    /\ NewsFetched => Len(result.d.news_data.l) >= EnoughNews
    /\ ImagesFetched => Len(result.d.images.l) >= ImagesWanted

(***************************************************************************)
(* Runs of _extract_search_terms on texts given character by character     *)
(***************************************************************************)
\* Pieces of text: vocabulary terms in several letter cases, a word that
\* contains a term, and a word that is none
TermFragments ==
    { <<"N", "A", "S", "D", "A", "Q">>,
      <<"n", "a", "s", "d", "a", "q">>,
      <<"N", "a", "s", "d", "a", "q">>,
      <<"S", "&", "P", " ", "5", "0", "0">>,
      <<"s", "&", "p", " ", "5", "0", "0">>,
      <<"D", "o", "w", " ", "J", "o", "n", "e", "s">>,
      <<"d", "o", "w", " ", "j", "o", "n", "e", "s">>,
      <<"N", "Y", "S", "E">>,
      <<"n", "y", "s", "e">>,
      <<"s", "t", "o", "c", "k", " ", "m", "a", "r", "k", "e", "t">>,
      <<"T", "r", "a", "d", "i", "n", "g">>,
      <<"E", "u", "r", "o", "b", "o", "n", "d", "s">>,
      <<"c", "a", "l", "m">>,
      <<"B", "i", "t", "c", "o", "i", "n">> }

\* " ".join(pieces)
RECURSIVE JoinWithSpace(_)
JoinWithSpace(pieces) ==
    IF pieces = <<>> THEN <<>>
    ELSE IF Len(pieces) = 1 THEN pieces[1]
    ELSE pieces[1] \o <<" ">> \o JoinWithSpace(Tail(pieces))

MaxPieces == 2

\* Texts that mention four or five terms, or terms that overlap
LongTermTexts ==
    { <<"s", "t", "o", "c", "k", " ", "m", "a", "r", "k", "e", "t", " ", "t", "r", "a", "d", "i", "n", "g", " ", "e", "a", "r", "n", "i", "n", "g", "s", " ", "b", "i", "t", "c", "o", "i", "n">>,
      <<"S", "t", "o", "c", "k", " ", "m", "a", "r", "k", "e", "t", " ", "c", "h", "a", "r", "t">>,
      <<"f", "u", "t", "u", "r", "e", "s", " ", "b", "o", "n", "d", "s", " ", "f", "o", "r", "e", "x", " ", "N", "Y", "S", "E">>,
      <<"T", "r", "a", "d", "i", "n", "g", " ", "e", "a", "r", "n", "i", "n", "g", "s", " ", "N", "A", "S", "D", "A", "Q", " ", "f", "u", "t", "u", "r", "e", "s", " ", "b", "o", "n", "d", "s">> }

TermTexts ==
    {JoinWithSpace(q) : q \in SeqsUpTo(TermFragments, MaxPieces)} \cup LongTermTexts

InitTerms ==
    /\ pc = "call"
    /\ env = FullEnv
    /\ context \in {PyChars(c) : c \in TermTexts}
    /\ oracle = NoOracle
    /\ result = PyNone
    /\ executed = <<>>
    /\ calls = <<>>
    /\ todo = <<>>
    /\ mode = "raw"
    /\ emitted = PyNone

TermsCall ==
    /\ pc = "call"
    /\ result' = PyList(FormattingAgent_extract_search_terms(context).val)
    /\ executed' = Append(executed, "extract_search_terms")
    /\ pc' = "returned"
    /\ UNCHANGED <<env, context, oracle, calls, todo, mode, emitted>>

NextTerms == TermsCall
SpecTerms == InitTerms /\ [][NextTerms]_vars

\* The term occurs in the text when letter case is ignored on both sides
OccursIgnoringCase(term, chars) ==
    ContainsChars(LowerChars(chars), LowerChars(TermChars(term)))

OccurringTerms(chars) ==
    LET Occurs(term) == OccursIgnoringCase(term, chars)
    IN  SelectSeq(financial_terms, Occurs)

\* C12: search-term extraction returns, in vocabulary order, the first up to
\* 3 vocabulary terms that occur in the text under case-insensitive substring
\* match (so "NASDAQ", "S&P 500", "Dow Jones" and "NYSE" in any letter case
\* are found), and the two default terms only when no vocabulary term occurs.
C12_TermsFoundIgnoringCase ==
    (pc = "returned" /\ LastStage = "extract_search_terms") =>
        LET occurring == OccurringTerms(context.c)
        IN  IF occurring = <<>> THEN result.l = default_terms
            ELSE result.l = SubSeq(occurring, 1, Min(TermLimit, Len(occurring)))

(***************************************************************************)
(* utils/pdf_generator.py                                                  *)
(***************************************************************************)
max_width == 400
max_height == 300

Newline == "\n"
WhiteSpace == {" ", Newline, "\t"}

\* s.startswith(prefix)
StartsWithChars(s, prefix) ==
    Len(s) >= Len(prefix) /\ SubSeq(s, 1, Len(prefix)) = prefix

\* s.strip()
StripChars(s) ==
    LET inked == {i \in 1..Len(s) : s[i] \notin WhiteSpace}
    IN  IF inked = {} THEN <<>>
        ELSE SubSeq(s, CHOOSE i \in inked : \A k \in inked : i <= k,
                       CHOOSE i \in inked : \A k \in inked : i >= k)

ChartOpen == <<"[", "C", "h", "a", "r", "t", ":">>

\* The last position of the match of \[Chart:.*?\] that starts at i, 0 when
\* there is none: the nearest "]" after the opening, on the same line
MarkerEnd(s, i) ==
    IF i + Len(ChartOpen) - 1 <= Len(s)
       /\ SubSeq(s, i, i + Len(ChartOpen) - 1) = ChartOpen
    THEN LET from == i + Len(ChartOpen)
             stop == FirstIndex(SubSeq(s, from, Len(s)), {"]", Newline})
         IN  IF stop # 0 /\ s[from + stop - 1] = "]" THEN from + stop - 1 ELSE 0
    ELSE 0

\* re.split(r'(\[Chart:.*?\])', s) from position i on, the segment before
\* the next match starting at position from: matches are taken leftmost and
\* do not overlap; the text between two matches is a part even when empty
RECURSIVE ReSplitFrom(_, _, _)
ReSplitFrom(s, from, i) ==
    IF i > Len(s) THEN <<SubSeq(s, from, Len(s))>>
    ELSE LET e == MarkerEnd(s, i)
         IN  IF e = 0 THEN ReSplitFrom(s, from, i + 1)
             ELSE <<SubSeq(s, from, i - 1), SubSeq(s, i, e)>>
                  \o ReSplitFrom(s, e + 1, e + 1)

ReSplit(s) == ReSplitFrom(s, 1, 1)

PDFGenerator_split_content_by_images(content) ==
    SelectSeq(ReSplit(content), LAMBDA part : StripChars(part) # <<>>)

\* part.split('\n\n'): the separator is taken leftmost, without overlap
RECURSIVE SplitBlankLinesFrom(_, _, _)
SplitBlankLinesFrom(s, from, i) ==
    IF i + 1 > Len(s) THEN <<SubSeq(s, from, Len(s))>>
    ELSE IF s[i] = Newline /\ s[i + 1] = Newline
         THEN <<SubSeq(s, from, i - 1)>> \o SplitBlankLinesFrom(s, i + 2, i + 2)
         ELSE SplitBlankLinesFrom(s, from, i + 1)

SplitBlankLines(s) == SplitBlankLinesFrom(s, 1, 1)

\* The flowables of a story
Paragraph(text, style) == [k |-> "Paragraph", text |-> text, style |-> style]
Spacer(height) == [k |-> "Spacer", height |-> height]
Image(url, width, height) == [k |-> "Image", url |-> url, width |-> width, height |-> height]

PDFGenerator_add_image_placeholder(placeholder_text) ==
    << Paragraph(<<"<i>">> \o placeholder_text \o <<"</i>">>, "Italic"), Spacer(8) >>

\* The flowables of one text part: its paragraphs that are not blank
RECURSIVE ProseFlowables(_)
ProseFlowables(paragraphs) ==
    IF paragraphs = <<>> THEN <<>>
    ELSE (IF StripChars(Head(paragraphs)) # <<>>
          THEN << Paragraph(StripChars(Head(paragraphs)), "CustomNormal"), Spacer(12) >>
          ELSE <<>>)
         \o ProseFlowables(Tail(paragraphs))

RECURSIVE PartFlowables(_)
PartFlowables(content_parts) ==
    IF content_parts = <<>> THEN <<>>
    ELSE LET part == Head(content_parts)
         IN  (IF StartsWithChars(part, ChartOpen)
              THEN PDFGenerator_add_image_placeholder(part)
              ELSE IF StripChars(part) # <<>>
              THEN ProseFlowables(SplitBlankLines(part))
              ELSE <<>>)
             \o PartFlowables(Tail(content_parts))

AbsDiff(a, b) == IF a >= b THEN a - b ELSE b - a

\* A resize that stretches every large image to the whole box
Thumbnail_WholeBox(w, h) == <<max_width, max_height>>

\* pil_img.thumbnail((max_width, max_height)) for an image that exceeds the
\* box: the side that is relatively larger takes the size of the box, the
\* other the nearest whole number that keeps the aspect ratio, at least 1
Thumbnail(w, h) ==
    LET near(q, r, better(_, _)) ==
            LET f == q \div r
                c == IF q % r = 0 THEN f ELSE f + 1
            IN  IF better(f, c) THEN f ELSE c
        AtLeastOne(n) == IF n < 1 THEN 1 ELSE n
    IN  IF max_width * h >= w * max_height
        THEN << AtLeastOne(near(max_height * w, h,
                     LAMBDA f, c : AbsDiff(w * max_height, f * h)
                                     <= AbsDiff(w * max_height, c * h))),
                max_height >>
        ELSE << max_width,
                AtLeastOne(near(max_width * h, w,
                     LAMBDA f, c : f = 0 \/ AbsDiff(w * f, max_width * h) * c
                                              <= AbsDiff(w * c, max_width * h) * f)) >>

\* The caption of a slot of the charts section: the chart sign, the title and
\* what is said about the image
Caption(title, note) == Paragraph(<<"<chart sign>", title, note>>, "Italic")

\* A slot rendered for every item whatever it holds, the fetch never made
AddImage_NoFetchEver(image_data, answer) ==
    [err |-> "", calls |-> <<>>,
     flow |-> << Caption(Get(image_data, "title", PyStr(Sentence(<<W("Chart")>>))),
                         "(Chart not available)"),
                 Spacer(15) >>]

\* answer: the outcome of fetching and decoding the url: a failure (transport
\* error, HTTP status such as 404, no image data), or an image of some size.
\* Returns the flowables appended and the requests made; err names the
\* exception that leaves the method (an item that is no dict fails again
\* inside the except clause).
PDFGenerator_add_image_to_story(image_data, answer) ==
    IF image_data.t # "dict"
    THEN [err |-> "AttributeError", calls |-> <<>>, flow |-> <<>>]
    ELSE
    LET url == Get(image_data, "url", PyChars(<<>>))
        title == Get(image_data, "title", PyStr(Sentence(<<W("Chart")>>)))
    IN  IF ~Truthy(url)
           \/ (url.t = "chars"
               /\ ContainsChars(LowerChars(url.c),
                                <<"p", "l", "a", "c", "e", "h", "o", "l", "d", "e", "r">>))
        THEN [err |-> "", calls |-> <<>>,
              flow |-> << Caption(title, "(Chart not available)"), Spacer(15) >>]
        ELSE IF url.t # "chars"
        THEN \* url.lower() raises inside the try block
             [err |-> "", calls |-> <<>>,
              flow |-> << Caption(title, "(Image could not be loaded)"), Spacer(15) >>]
        ELSE IF ~answer.ok
        THEN [err |-> "", calls |-> <<"requests.get">>,
              flow |-> << Caption(title, "(Image could not be loaded)"), Spacer(15) >>]
        ELSE
        LET size == IF answer.width > max_width \/ answer.height > max_height
                    THEN Thumbnail(answer.width, answer.height)
                    ELSE <<answer.width, answer.height>>
        IN  [err |-> "", calls |-> <<"requests.get">>,
             flow |-> << Caption(title, ""), Spacer(8),
                         Image(url.c, size[1], size[2]), Spacer(20) >>]

\* for img in images: self._add_image_to_story(story, img), the i-th item
\* answered by answers[i]; an exception ends the loop
RECURSIVE ImageFlowables(_, _, _)
ImageFlowables(images, answers, i) ==
    IF i > Len(images) THEN [err |-> "", calls |-> <<>>, flow |-> <<>>]
    ELSE LET one == PDFGenerator_add_image_to_story(images[i], answers[i])
         IN  IF one.err # "" THEN one
             ELSE LET rest == ImageFlowables(images, answers, i + 1)
                  IN  [err |-> rest.err, calls |-> one.calls \o rest.calls,
                       flow |-> one.flow \o rest.flow]

\* Returns the flowables appended to the story and the requests made.  The
\* text is a string given character by character; re.split raises on a value
\* that is no string, and so does the loop over a value that is no list.
PDFGenerator_add_formatted_content(pdf_data, answers) ==
    LET head == << Paragraph(<<"Financial Market Summary">>, "CustomHeading"),
                   Spacer(20) >>
        formatted_summary == Get(pdf_data, "formatted_summary", PyChars(<<>>))
        images == Get(pdf_data, "images", PyList(<<>>))
        body == IF Truthy(formatted_summary)
                THEN PartFlowables(PDFGenerator_split_content_by_images(formatted_summary.c))
                ELSE <<>>
    IN  IF Truthy(formatted_summary) /\ formatted_summary.t # "chars"
        THEN [err |-> "TypeError", calls |-> <<>>, flow |-> head]
        ELSE IF ~Truthy(images)
        THEN [err |-> "", calls |-> <<>>, flow |-> head \o body]
        ELSE
        LET charts == << Spacer(20),
                         Paragraph(<<"Related Charts and Graphs">>, "CustomHeading"),
                         Spacer(15) >>
        IN  IF images.t # "list"
            THEN [err |-> "TypeError", calls |-> <<>>, flow |-> head \o body \o charts]
            ELSE LET slots == ImageFlowables(images.l, answers, 1)
                 IN  [err |-> slots.err, calls |-> slots.calls,
                      flow |-> head \o body \o charts \o slots.flow]

ReportPath == PyStr(Sentence(<<W("output/financial_market_summary_<timestamp>.pdf")>>))

\* o.fetch: the outcome of each image fetch; o.build: whether doc.build laid
\* the story out and wrote the file ("saved") or raised (markup a Paragraph
\* cannot parse, a flowable that does not fit, an I/O error).  The except
\* clause logs and raises again.  Returns the path or what was raised, the
\* story built, whether the file was written, and the calls made.
PDFGenerator_create_report(pdf_data, o) ==
    IF pdf_data.t # "dict"
    THEN [val |-> [t |-> "exception", e |-> "AttributeError"],
          story |-> <<>>, saved |-> FALSE, calls |-> <<>>]
    ELSE
    LET front == << Paragraph(Get(pdf_data, "title",
                                  PyStr(Sentence(<<W("Financial"), W("Market"),
                                                   W("Summary")>>))),
                              "CustomTitle"),
                    Spacer(20),
                    Paragraph(<<"Generated: <now>">>, "Normal"),
                    Spacer(30) >>
        content == PDFGenerator_add_formatted_content(pdf_data, o.fetch)
        story == front \o content.flow
    IN  IF content.err # ""
        THEN [val |-> [t |-> "exception", e |-> content.err],
              story |-> story, saved |-> FALSE, calls |-> content.calls]
        ELSE IF o.build # "saved"
        THEN [val |-> [t |-> "exception", e |-> "build failed"],
              story |-> story, saved |-> FALSE,
              calls |-> content.calls \o <<"doc.build">>]
        ELSE [val |-> ReportPath, story |-> story, saved |-> TRUE,
              calls |-> content.calls \o <<"doc.build">>]

(***************************************************************************)
(* Runs of PDFGenerator.create_report                                      *)
(***************************************************************************)
\* The text of the scenario: a sentence, a chart marker with its url line, a
\* sentence
ScenarioText ==
    << "S", "&", "P", " ", "5", "0", "0", " ", "f", "e", "l", "l", " ", "2",
       "%", " ", "t", "o", "d", "a", "y", ".", Newline, Newline, "[", "C",
       "h", "a", "r", "t", ":", " ", "S", "&", "P", " ", "5", "0", "0", " ",
       "D", "a", "i", "l", "y", "]", Newline, "h", "t", "t", "p", ":", "/",
       "/", "x", "/", "i", "m", "g", ".", "p", "n", "g", Newline, Newline,
       "M", "a", "r", "k", "e", "t", "s", " ", "c", "l", "o", "s", "e", "d",
       " ", "e", "a", "r", "l", "y", "." >>

\* Pieces of text: a marker, white space, a blank line, a word, a url line,
\* an opening without its bracket, a bracket
TextPieces ==
    { <<"[", "C", "h", "a", "r", "t", ":", " ", "a", "]">>,
      <<" ">>,
      <<Newline, Newline>>,
      <<"x">>,
      <<Newline, "u", Newline>>,
      <<"[", "C", "h", "a", "r", "t", ":">>,
      <<"]">> }

RECURSIVE Concat(_)
Concat(pieces) == IF pieces = <<>> THEN <<>> ELSE Head(pieces) \o Concat(Tail(pieces))

MaxTextPieces == 3
MaxImages == 3

\* The texts behind the fallback and the error content of the Formatting
\* stage hold no marker; "x" stands for them
PdfTexts == {Concat(q) : q \in SeqsUpTo(TextPieces, MaxTextPieces)} \cup {ScenarioText}

UrlPlaceholderHost ==
    << "h", "t", "t", "p", "s", ":", "/", "/", "v", "i", "a", ".", "p", "l",
       "a", "c", "e", "h", "o", "l", "d", "e", "r", ".", "c", "o", "m", "/",
       "4", "0", "0", "x", "3", "0", "0", ".", "p", "n", "g" >>

\* Descriptors: a url that is fetched, a placeholder host, an empty url, and
\* one that has no url
PdfImages ==
    { PyDict([url |-> PyChars(UrlPng), title |-> PyStr(Sentence(<<W("A")>>))]),
      PyDict([url |-> PyChars(UrlPlaceholderHost), title |-> PyStr(Sentence(<<W("B")>>))]),
      PyDict([url |-> PyChars(<<>>), title |-> PyStr(Sentence(<<W("C")>>))]),
      PyDict([title |-> PyStr(Sentence(<<W("D")>>))]) }

PdfData(text, images) ==
    PyDict([title |-> PyStr(Sentence(<<W("Financial"), W("Market"), W("Summary"),
                                       W("-"), W("<today>")>>)),
            formatted_summary |-> PyChars(text),
            images |-> PyList(images),
            timestamp |-> PyStr(Sentence(<<W("<timestamp>")>>))])

\* Every text with two descriptors, and the scenario with every list of
\* descriptors
PdfInputs ==
    {PdfData(text, << CHOOSE d \in PdfImages : d.d.title.s = Sentence(<<W("A")>>),
                      CHOOSE d \in PdfImages : d.d.title.s = Sentence(<<W("B")>>) >>) :
        text \in PdfTexts}
    \cup {PdfData(ScenarioText, images) : images \in SeqsUpTo(PdfImages, MaxImages)}

\* The answers to a fetch: HTTP 404, data that is no image, an image inside
\* the box, one that exceeds it
FetchAnswers ==
    { [ok |-> FALSE, why |-> "HTTP 404"],
      [ok |-> FALSE, why |-> "cannot identify image"],
      [ok |-> TRUE, width |-> 200, height |-> 100],
      [ok |-> TRUE, width |-> 1000, height |-> 500] }

\* A slot whose url is not fetched gets no answer
Fetched(image_data) ==
    /\ image_data.t = "dict"
    /\ HasKey(image_data, "url")
    /\ image_data.d.url.t = "chars"
    /\ image_data.d.url.c # <<>>
    /\ ~ContainsChars(LowerChars(image_data.d.url.c),
                      <<"p", "l", "a", "c", "e", "h", "o", "l", "d", "e", "r">>)

PdfOracles(images) ==
    {[fetch |-> f, build |-> b] :
        f \in {g \in [1..Len(images) -> FetchAnswers \cup {Unasked}] :
                  \A i \in 1..Len(images) : Fetched(images[i]) <=> g[i] # Unasked},
        b \in {"saved", "failed"}}

InitPdf ==
    /\ pc = "call"
    /\ env = FullEnv
    /\ context \in PdfInputs
    /\ oracle = NoOracle
    /\ result = PyNone
    /\ executed = <<>>
    /\ calls = <<>>
    /\ todo = <<>>
    /\ mode = "raw"
    /\ emitted = PyNone

CreateReport ==
    /\ pc = "call"
    /\ \E o \in PdfOracles(context.d.images.l) :
          LET r == PDFGenerator_create_report(context, o)
          IN  /\ oracle' = o
              /\ result' = r.val
              /\ calls' = r.calls
              /\ emitted' = [t |-> "story", l |-> r.story, saved |-> r.saved]
              /\ pc' = IF r.val.t = "exception" THEN "raised" ELSE "returned"
    /\ executed' = Append(executed, "create_report")
    /\ UNCHANGED <<env, context, todo, mode>>

NextPdf == CreateReport
SpecPdf == InitPdf /\ [][NextPdf]_vars

Called(name) == pc \in {"returned", "raised"} /\ LastStage = name

\* The prose paragraphs and the inline placeholders of a story, in order
IsProse(f) == f.k = "Paragraph" /\ f.style = "CustomNormal"
IsPlaceholder(f) == f.k = "Paragraph" /\ f.style = "Italic" /\ f.text[1] = "<i>"
InlineFlowables(story) == SelectSeq(story, LAMBDA f : IsProse(f) \/ IsPlaceholder(f))
InlineKinds(story) ==
    LET inline == InlineFlowables(story)
    IN  [i \in 1..Len(inline) |-> IF IsProse(inline[i]) THEN "prose" ELSE "placeholder"]

\* The positions of the text where a marker ends
MarkerEnds(s) == {MarkerEnd(s, i) : i \in 1..Len(s)} \ {0}

\* Every "u" of the text is the first character of the line after a marker
OnlyUrlLines(s) ==
    \A i \in 1..Len(s) :
        s[i] = "u" => (i >= 3 /\ s[i - 1] = Newline /\ (i - 2) \in MarkerEnds(s))

\* C13: the text of the scenario (a sentence, a blank line, the marker
\* "[Chart: S&P 500 Daily]", its url line, a blank line, a sentence) is
\* assembled into exactly 2 prose paragraphs and 1 inline placeholder, in the
\* order paragraph, placeholder, paragraph; and in general a url line that
\* follows a marker is not emitted as a prose paragraph.
C13_ScenarioTwoParagraphsOnePlaceholder ==
    Called("create_report") =>
        /\ context.d.formatted_summary.c = ScenarioText =>
              InlineKinds(emitted.l) = <<"prose", "placeholder", "prose">>
        /\ OnlyUrlLines(context.d.formatted_summary.c) =>
              \A i \in 1..Len(emitted.l) :
                  IsProse(emitted.l[i]) => ~ContainsChars(emitted.l[i].text, <<"u">>)

\* Runs of _split_content_by_images alone, on every text that holds a marker
HoldsMarker(s) == MarkerEnds(s) # {}

InitSplit ==
    /\ pc = "call"
    /\ env = FullEnv
    /\ context \in {PyChars(s) : s \in {t \in PdfTexts : HoldsMarker(t)}}
    /\ oracle = NoOracle
    /\ result = PyNone
    /\ executed = <<>>
    /\ calls = <<>>
    /\ todo = <<>>
    /\ mode = "raw"
    /\ emitted = PyNone

SplitCall ==
    /\ pc = "call"
    /\ result' = PyList(PDFGenerator_split_content_by_images(context.c))
    /\ executed' = Append(executed, "split_content_by_images")
    /\ pc' = "returned"
    /\ UNCHANGED <<env, context, oracle, calls, todo, mode, emitted>>

NextSplit == SplitCall
SpecSplit == InitSplit /\ [][NextSplit]_vars

\* C14: for every string that holds a marker, the segments that
\* _split_content_by_images returns, concatenated in order, are the string
\* itself, also when two markers are separated by white space only or when
\* the string begins or ends with white space.
C14_SplitRoundTrip ==
    Called("split_content_by_images") => Concat(result.l) = context.c

\* C15: PDFGenerator.create_report is total: for every well-formed input
\* (text with 0, 1 or more markers, the text of the empty-content fallback,
\* an images list of length 0, 1, 2 or more) and for every outcome of the
\* image fetches, of rendering and of saving, it returns a document path and
\* raises nothing to its caller.
C15_CreateReportTotal ==
    LastStage = "create_report" => (pc = "returned" /\ result = ReportPath)

\* The slots of the charts section: their captions, in order
IsCaption(f) == f.k = "Paragraph" /\ f.style = "Italic" /\ f.text[1] = "<chart sign>"
Slots(story) == SelectSeq(story, IsCaption)

PlaceholderChars == <<"p", "l", "a", "c", "e", "h", "o", "l", "d", "e", "r">>

\* The descriptor has no url, an empty one, or one on a placeholder host
NothingToFetch(image_data) ==
    \/ ~HasKey(image_data, "url")
    \/ image_data.d.url.c = <<>>
    \/ ContainsChars(LowerChars(UrlNetloc(image_data.d.url.c)), PlaceholderChars)

\* The flowable that follows the i-th caption and its spacer
AfterCaption(story, i) ==
    LET at == CHOOSE n \in 1..Len(story) :
                  /\ IsCaption(story[n])
                  /\ Len(Slots(SubSeq(story, 1, n))) = i
    IN  IF at + 2 <= Len(story) THEN story[at + 2] ELSE Spacer(0)

\* C16: the charts section holds exactly one slot per descriptor of the
\* images list, in list order, also for lists longer than 2; a slot whose
\* fetch or decode fails is captioned "(Image could not be loaded)", a slot
\* with no url or a placeholder-host url is captioned "(Chart not available)"
\* and is not fetched, and the slots after a failed one are rendered as they
\* would be without it (an image that loads is embedded).
C16_OneSlotPerDescriptor ==
    Called("create_report") =>
        LET images == context.d.images.l
            slots == Slots(emitted.l)
            fetches == SelectSeq(calls, LAMBDA c : c = "requests.get")
        IN  /\ Len(slots) = Len(images)
            /\ \A i \in 1..Len(images) :
                  /\ slots[i].text[2] = images[i].d.title
                  /\ NothingToFetch(images[i]) =>
                        /\ slots[i].text[3] = "(Chart not available)"
                        /\ oracle.fetch[i] = Unasked
                  /\ (~NothingToFetch(images[i]) /\ ~oracle.fetch[i].ok) =>
                        slots[i].text[3] = "(Image could not be loaded)"
                  /\ (~NothingToFetch(images[i]) /\ oracle.fetch[i].ok) =>
                        /\ slots[i].text[3] = ""
                        /\ AfterCaption(emitted.l, i).k = "Image"
                        /\ AfterCaption(emitted.l, i).url = images[i].d.url.c
            /\ Len(fetches) = Cardinality({i \in 1..Len(images) : ~NothingToFetch(images[i])})

\* Three descriptors: the first fetch answered with an error, the second
\* slot a placeholder host, the third image loaded and embedded
C16_Witness ==
    /\ Called("create_report")
    /\ Len(context.d.images.l) = 3
    /\ ~NothingToFetch(context.d.images.l[1]) /\ ~oracle.fetch[1].ok
    /\ NothingToFetch(context.d.images.l[2])
    /\ ~NothingToFetch(context.d.images.l[3]) /\ oracle.fetch[3].ok
    /\ Len(Slots(emitted.l)) = 3
    /\ AfterCaption(emitted.l, 3).k = "Image"

(***************************************************************************)
(* Runs of SendAgent.distribute_report on formatted content                *)
(***************************************************************************)
MaxOverChars == 2   \* characters a summary may have above the Telegram limit

\* A text of n characters
TextOfLen(n) == Sentence(<<[w |-> "", i |-> 0, dots |-> 0, c |-> [j \in 1..n |-> "x"]]>>)

SummaryLens == {0, 1, TelegramLimit - 1, TelegramLimit}
               \cup {TelegramLimit + k : k \in 1..MaxOverChars}

\* Images lists of length 0 to 3
SendImages ==
    LET two == FormattingAgent_get_fallback_images
    IN  {<<>>, <<two[1]>>, two, two \o <<two[1]>>}

FormattedContent(text, images) ==
    PyDict([formatted_summary |-> PyStr(text),
            images |-> PyList(images),
            timestamp |-> Now,
            original_summary |-> PyStr(text)])

\* Formatted upstream data: the content of a Formatting run, the fallback
\* content, a content handed over inside a list, and one whose images list
\* holds an item that is no descriptor
SendInputs ==
    {FormattedContent(TextOfLen(n), images) : n \in SummaryLens, images \in SendImages}
    \cup {FormattingAgent_create_fallback_formatted_content,
          PyList(<<FormattedContent(TextOfLen(1), <<>>)>>),
          FormattedContent(TextOfLen(1), <<PyNone>>)}

InitSend ==
    /\ pc = "call"
    /\ env \in EnvsOver({"TELEGRAM_BOT_TOKEN", "TELEGRAM_CHAT_ID"})
    /\ context \in SendInputs
    /\ oracle = NoOracle
    /\ result = PyNone
    /\ executed = <<>>
    /\ calls = <<>>
    /\ todo = <<>>
    /\ mode = "raw"
    /\ emitted = PyNone

SendCall ==
    /\ pc = "call"
    /\ \E o \in DistributionOracles(env) :
          LET r == SendAgent_distribute_report(context, env, o)
          IN  /\ oracle' = o
              /\ result' = r.val
              /\ calls' = r.calls
              /\ emitted' = r.message
              /\ pc' = IF r.val.t = "exception" THEN "raised" ELSE "returned"
    /\ executed' = Append(executed, "distribute_report")
    /\ UNCHANGED <<env, context, todo, mode>>

NextSend == SendCall
SpecSend == InitSend /\ [][NextSend]_vars

Credentials == env["TELEGRAM_BOT_TOKEN"] /\ env["TELEGRAM_CHAT_ID"]
FormattedData == SendAgent_extract_formatted_data(context)

\* C17: document creation and the channel send are independent: whatever
\* create_report did, the text send is made as it would have been otherwise
\* (the request goes out whenever the credentials are there), whatever the
\* send did, the document result stands, and the result reports the two
\* outcomes separately in pdf_created (with pdf_path) and telegram_sent.
C17_PdfAndTelegramIndependent ==
    Called("distribute_report") =>
        /\ pc = "returned"
        /\ ~HasKey(result, "status")
        /\ calls # <<>> /\ Head(calls) = "pdf.create_report"
        /\ ("telegram.sendMessage" \in {calls[i] : i \in DOMAIN calls}) <=> Credentials
        /\ result.d.pdf_created = PyBool(oracle.pdf.ok)
        /\ (result.d.pdf_path.s # EmptyText) <=> oracle.pdf.ok
        /\ result.d.telegram_sent = PyBool(oracle.telegram = "accepted")

\* The document failed, and the message was sent and accepted all the same
C17_Witness ==
    /\ Called("distribute_report")
    /\ ~oracle.pdf.ok
    /\ oracle.telegram = "accepted"
    /\ calls[1] = "pdf.create_report" /\ calls[2] = "telegram.sendMessage"
    /\ result.d.pdf_created = PyBool(FALSE)
    /\ result.d.telegram_sent = PyBool(TRUE)

\* C18: given formatted upstream data, a run of the Distribution stage makes
\* both attempts, the PDF creation and the Telegram text send; neither is
\* skipped because of the configuration or of the other's outcome.
C18_BothAttemptsAlwaysMade ==
    (Called("distribute_report") /\ Truthy(FormattedData)) =>
        /\ "pdf.create_report" \in {calls[i] : i \in DOMAIN calls}
        /\ "telegram.sendMessage" \in {calls[i] : i \in DOMAIN calls}

TextSendMade == "telegram.sendMessage" \in {calls[i] : i \in DOMAIN calls}

\* C19: telegram_sent of the result is true if and only if the text message
\* was sent and the service accepted it; whether the document was saved and
\* whether the photos were accepted does not change it.
C19_SentIffTextAccepted ==
    Called("distribute_report") =>
        (result.d.telegram_sent = PyBool(TRUE))
            <=> (TextSendMade /\ oracle.telegram = "accepted")

\* The text was accepted while the document failed and a photo was not
\* accepted: telegram_sent is true
C19_Witness ==
    /\ Called("distribute_report")
    /\ oracle.telegram = "accepted"
    /\ ~oracle.pdf.ok
    /\ emitted.t = "telegram"
    /\ \E i \in DOMAIN emitted.photos : ~emitted.photos[i]
    /\ result.d.telegram_sent = PyBool(TRUE)
    /\ result.d.pdf_created = PyBool(FALSE)

\* The summary the message was built from
SummarySent == Get(FormattedData, "formatted_summary", PyStr(EmptyText)).s

\* C20: the text handed to sendMessage has at most 2000 characters, whatever
\* the day; when the summary has more than 2000 characters the text holds
\* its first 2000 characters unchanged, followed by an ellipsis.
C20_TextWithinLimit ==
    (Called("distribute_report") /\ TextSendMade) =>
        /\ \A m \in MonthLens : TelegramMessageLen(emitted.text, m) <= TelegramLimit
        /\ emitted.text.body = SummarySent
        /\ emitted.text.cut <=> CharLen(SummarySent) > TelegramLimit
        /\ emitted.text.cut => emitted.text.kept = TelegramLimit

\* The sendPhoto requests among the calls of the run
PhotoSends == SelectSeq(calls, LAMBDA c : c = "telegram.sendPhoto")

\* C21: a run of the Distribution stage sends at most 2 images, those of the
\* first two descriptors, and only after the text message; a failed image
\* send does not keep the other from being made; and the result of the stage
\* reports for each image send whether it succeeded.
C21_ImageSendsReported ==
    (Called("distribute_report") /\ TextSendMade) =>
        LET images == Get(FormattedData, "images", PyList(<<>>)).l
            descriptors == SelectSeq(SubSeq(images, 1, Min(2, Len(images))),
                                     LAMBDA x : x.t = "dict")
        IN  /\ Len(PhotoSends) <= 2
            /\ Len(PhotoSends) = Len(descriptors)
            /\ \A i \in DOMAIN calls :
                  calls[i] = "telegram.sendPhoto" =>
                      \E j \in 1..(i - 1) : calls[j] = "telegram.sendMessage"
            /\ emitted.photos # <<>> =>
                  \E k \in DOMAIN result.d :
                      result.d[k] = PyList([i \in DOMAIN emitted.photos |->
                                               PyBool(emitted.photos[i])])

\* The closed set of language codes of a bundle
LanguageCodes == {target_languages[i] : i \in DOMAIN target_languages}

NoContentText ==
    Sentence(<<W("No"), W("content"), W("available"), W("for"), W("translation.")>>)

\* C22: the Translation stage called without upstream context returns a
\* bundle with exactly the languages hindi, arabic and hebrew, each entry
\* holding the fixed text "No content available for translation.", an empty
\* images list and the status fallback, and makes no translation call.
C22_NoContextFallbackBundle ==
    (Returned /\ StageRun = "Translation" /\ context = PyNone) =>
        /\ pc = "done"
        /\ calls = <<>>
        /\ result.d.status = PyStr(Sentence(<<W("fallback")>>))
        /\ DOMAIN result.d.translations.d = LanguageCodes
        /\ \A lang \in LanguageCodes :
              LET entry == result.d.translations.d[lang]
              IN  /\ entry.d.content = PyStr(NoContentText)
                  /\ entry.d.images = PyList(<<>>)
                  /\ entry.d.status = PyStr(Sentence(<<W("fallback")>>))

C22_Witness ==
    /\ Returned /\ StageRun = "Translation" /\ context = PyNone
    /\ Cardinality(DOMAIN result.d.translations.d) = 3
    /\ result.d.translations.d.hebrew.d.content = PyStr(NoContentText)

\* The Translation stage ran on content it could read, and asked for the
\* three translations
Translated == Returned /\ StageRun = "Translation" /\ calls # <<>>

\* The languages whose completion call failed in the run
FailedLanguages == {i \in DOMAIN target_languages : ~oracle.translate[i].ok}

\* The words of the content the stage was given to translate
OriginalWords ==
    Fmt(Get(TranslatingAgent_extract_formatted_data(context), "formatted_summary",
            PyStr(EmptyText)))

\* C23: whichever languages' translation calls fail, the Translation stage
\* returns an entry for each of hindi, arabic and hebrew; the content of a
\* failed language is its localized "translation service unavailable" notice
\* followed by the original content, and the content of every other language
\* is the translation its own call returned.
C23_FailedLanguagesFallBack ==
    Translated =>
        /\ pc = "done"
        /\ DOMAIN result.d.translations.d = LanguageCodes
        /\ \A i \in DOMAIN target_languages :
              LET lang == target_languages[i]
                  content == result.d.translations.d[lang].d.content
              IN  IF i \in FailedLanguages
                  THEN /\ content.t = "str"
                       /\ Head(content.s) = Para(<<W("<service unavailable, in " \o lang \o ">")>>)
                       /\ Words(Tail(content.s)) =
                              <<W("[Original"), W("Content]")>> \o OriginalWords
                  ELSE content = PyStr(Strip(oracle.translate[i].content))

C23_Witness ==
    /\ Translated
    /\ FailedLanguages = {2}
    /\ OriginalWords # <<>>
    /\ Words(result.d.translations.d.arabic.d.content.s) =
           <<W("<service unavailable, in arabic>"), W("[Original"), W("Content]")>> \o OriginalWords
    /\ result.d.translations.d.hindi.d.content = result.d.translations.d.hebrew.d.content

(***************************************************************************)
(* financial_market_crew.py: FinancialNewsFlow                             *)
(***************************************************************************)
FlowEnvNames == {"GOOGLE_API_KEY", "GEMINI_API_KEY", "TAVILY_API_KEY",
                 "TELEGRAM_BOT_TOKEN", "TELEGRAM_CHANNEL_ID"}
FlowEnvs == [FlowEnvNames -> BOOLEAN]

Text(s) == PyStr(Sentence(<<W(s)>>))
PyTuple(l) == [t |-> "tuple", l |-> l]

\* The object after setup_environment: which keys it holds, and demo_mode,
\* set when one of the four required keys is missing
FinancialNewsFlow_setup_environment(e) ==
    LET google_api_key == e["GOOGLE_API_KEY"] \/ e["GEMINI_API_KEY"]
        required_keys == {google_api_key, e["TAVILY_API_KEY"],
                          e["TELEGRAM_BOT_TOKEN"], e["TELEGRAM_CHANNEL_ID"]}
    IN  [t |-> "flow",
         google_api_key |-> google_api_key,
         tavily_api_key |-> e["TAVILY_API_KEY"],
         telegram_bot_token |-> e["TELEGRAM_BOT_TOKEN"],
         telegram_chat_id |-> e["TELEGRAM_CHANNEL_ID"],
         demo_mode |-> required_keys # {TRUE},
         agents |-> 0]

\* built: whether TavilyClient(), Translator() and Bot() all returned; an
\* exception of one of them is logged and raised again
FinancialNewsFlow_setup_tools(self, built) ==
    IF built THEN Ok(self) ELSE Raise("tool initialization failed")

\* The agents setup_agents() assigns, in order
agent_attributes == <<"search_agent", "summary_agent", "formatting_agent",
                      "translation_agent", "distribution_agent">>

\* The methods the class defines
flow_methods == {"setup_environment", "setup_tools", "setup_agents",
                 "search_financial_news", "create_summary", "format_with_visuals",
                 "translate_content", "generate_report", "distribute_content",
                 "run_complete_flow"}

\* self.<name>: an attribute that was never assigned raises AttributeError
GetAttr(self, name) ==
    IF \/ name \in flow_methods
       \/ \E i \in 1..self.agents : agent_attributes[i] = name
    THEN Ok(name)
    ELSE Raise("AttributeError: " \o name)

\* built: the number of Agent() constructions that returned before one
\* raised, Len(agent_attributes) when none did
FinancialNewsFlow_setup_agents(self, built) ==
    [self EXCEPT !.agents = IF built > @ THEN built ELSE @]

\* One step of the flow that builds a Task for an agent and, outside demo
\* mode, runs a one-task crew: the agent attribute is read first, then the
\* crew runs
CrewStep(self, agent, kickoff, demo_result, crew_result) ==
    LET attr == GetAttr(self, agent)
    IN  IF ~attr.ok THEN [out |-> Raise(attr.err), calls |-> <<>>]
        ELSE IF self.demo_mode THEN [out |-> Ok(demo_result), calls |-> <<>>]
        ELSE [out |-> IF kickoff THEN Ok(crew_result) ELSE Raise("crew kickoff failed"),
              calls |-> <<"crew.kickoff">>]

FinancialNewsFlow_search_financial_news(self, o) ==
    IF ~self.demo_mode /\ ~o.search
    THEN [out |-> Raise("tavily search failed"), calls |-> <<"tavily.search">>]
    ELSE LET step == CrewStep(self, "search_agent", o.kickoff[1],
                              Text("<DEMO MODE: news analysis>"), Text("<crew output 1>"))
         IN  [out |-> step.out,
              calls |-> (IF self.demo_mode THEN <<>> ELSE <<"tavily.search">>) \o step.calls]

FinancialNewsFlow_create_summary(self, news_data, o) ==
    CrewStep(self, "summary_agent", o.kickoff[2],
             Text("<summary, Generated in Demo Mode>"), Text("<crew output 2>"))

FinancialNewsFlow_format_with_visuals(self, summary, news_data, o) ==
    LET step == CrewStep(self, "formatting_agent", o.kickoff[3],
                         Text("<Content formatted, demo>"), Text("<crew output 3>"))
    IN  IF ~step.out.ok THEN step
        ELSE [out |-> Ok(PyDict([formatted_text |-> step.out.val,
                                 visual_recommendations |->
                                     PyList(<<Text("<S&P 500 chart>"), Text("<sector heatmap>")>>),
                                 placement_notes |-> Text("<placement>")])),
              calls |-> step.calls]

FinancialNewsFlow_translate_content(self, formatted_content, o) ==
    LET step == CrewStep(self, "translation_agent", o.kickoff[4],
                         Text("<Demo translations completed>"), Text("<crew output 4>"))
    IN  IF ~step.out.ok THEN step
        ELSE [out |-> Ok(PyDict([english |-> formatted_content.d.formatted_text,
                                 arabic |-> Text("Arabic translation would appear here"),
                                 hindi |-> Text("Hindi translation would appear here"),
                                 hebrew |-> Text("Hebrew translation would appear here")])),
              calls |-> step.calls]

\* written: whether the directory and the file could be written; a failure
\* is logged and an empty dict returned
FinancialNewsFlow_generate_report(content, language, written) ==
    [val |-> IF written THEN PyDict([txt |-> Text("<output/market_summary_" \o language \o ".txt>")])
             ELSE PyDict(EmptyDict),
     calls |-> <<"open">>]

\* The reports of the translations: one per key of the dict, none of which
\* is 'en'
TranslationReportCalls(translations) ==
    [i \in 1..Cardinality(DOMAIN translations.d) |-> "open"]

\* The class defines no send_to_telegram: the lookup raises inside the try
\* block and the except clause returns the pair (False, report_paths)
FinancialNewsFlow_distribute_content(self, translations, formatted_content, o) ==
    LET report == FinancialNewsFlow_generate_report(formatted_content, "en", o.report)
        send == GetAttr(self, "send_to_telegram")
    IN  [val |-> IF send.ok
                 THEN PyDict([success |-> PyBool(TRUE), report_paths |-> report.val,
                              telegram_sent |-> PyNone, translations |-> translations])
                 ELSE PyTuple(<<PyBool(FALSE), report.val>>),
         calls |-> report.calls \o TranslationReportCalls(translations)]

\* a, b = value: a dict is unpacked by its keys
Unpack2(v) ==
    LET n == IF v.t = "dict" THEN Cardinality(DOMAIN v.d) ELSE Len(v.l)
    IN  IF n = 2 /\ v.t # "dict" THEN Ok(v.l)
        ELSE Raise("ValueError: not 2 values to unpack")

\* The try block of run_complete_flow: the steps run in order up to the first
\* one that raises. Returns the steps entered, the outcome and the calls.
FlowSteps(self, o) ==
    LET s1 == FinancialNewsFlow_search_financial_news(self, o)
    IN  IF ~s1.out.ok
        THEN [steps |-> <<"search_financial_news">>, out |-> s1.out, calls |-> s1.calls]
        ELSE
    LET news_data == s1.out.val
        s2 == FinancialNewsFlow_create_summary(self, news_data, o)
    IN  IF ~s2.out.ok
        THEN [steps |-> <<"search_financial_news", "create_summary">>, out |-> s2.out,
              calls |-> s1.calls \o s2.calls]
        ELSE
    LET summary == s2.out.val
        s3 == FinancialNewsFlow_format_with_visuals(self, summary, news_data, o)
    IN  IF ~s3.out.ok
        THEN [steps |-> <<"search_financial_news", "create_summary", "format_with_visuals">>,
              out |-> s3.out, calls |-> s1.calls \o s2.calls \o s3.calls]
        ELSE
    LET formatted_content == s3.out.val
        s4 == FinancialNewsFlow_translate_content(self, formatted_content, o)
    IN  IF ~s4.out.ok
        THEN [steps |-> <<"search_financial_news", "create_summary", "format_with_visuals",
                          "translate_content">>,
              out |-> s4.out, calls |-> s1.calls \o s2.calls \o s3.calls \o s4.calls]
        ELSE
    LET translations == s4.out.val
        s5 == FinancialNewsFlow_generate_report(formatted_content, "en", o.report)
        s6 == FinancialNewsFlow_distribute_content(self, translations, formatted_content, o)
        pair == Unpack2(s6.val)
        telegram_success == pair.val[1]
    IN  [steps |-> <<"search_financial_news", "create_summary", "format_with_visuals",
                     "translate_content", "generate_report", "distribute_content">>,
         out |-> IF ~pair.ok THEN pair
                 ELSE Ok(PyDict([success |-> PyBool(TRUE),
                                 timestamp |-> Now,
                                 news_data |-> news_data,
                                 summary |-> summary,
                                 formatted_content |-> formatted_content,
                                 translations |-> translations,
                                 report_paths |-> s5.val,
                                 telegram_sent |-> telegram_success,
                                 status |-> IF Truthy(telegram_success) THEN Text("completed")
                                            ELSE Text("partial_success")])),
         calls |-> s1.calls \o s2.calls \o s3.calls \o s4.calls \o s5.calls
                   \o TranslationReportCalls(translations) \o s6.calls]

\* A run whose failing step's exception leaves run_complete_flow
RunCompleteFlow_Propagates(self, o) ==
    CHOOSE run \in
        {[val |-> IF r.out.ok THEN r.out.val ELSE [t |-> "exception", e |-> r.out.err],
          steps |-> r.steps, out |-> r.out, calls |-> r.calls] : r \in {FlowSteps(self, o)}} :
        TRUE

\* run_complete_flow: every exception of the try block becomes the result
\* {'success': False, 'error': str(e), 'status': 'failed'}
FinancialNewsFlow_run_complete_flow(self, o) ==
    CHOOSE run \in
        {[val |-> IF r.out.ok THEN r.out.val
                  ELSE PyDict([success |-> PyBool(FALSE),
                               error |-> Text(r.out.err),
                               status |-> Text("failed")]),
          steps |-> r.steps, out |-> r.out, calls |-> r.calls] : r \in {FlowSteps(self, o)}} :
        TRUE

(***************************************************************************)
(* A FinancialNewsFlow object: construction, setup_agents, one run         *)
(***************************************************************************)
FlowOracles == [search : BOOLEAN, kickoff : [1..4 -> BOOLEAN], report : BOOLEAN]

InitFlow ==
    /\ pc = "new"
    /\ env \in FlowEnvs
    /\ context = PyNone
    /\ oracle = NoOracle
    /\ result = PyNone
    /\ executed = <<>>
    /\ calls = <<>>
    /\ todo = <<>>
    /\ mode = "raw"
    /\ emitted = PyNone

\* FinancialNewsFlow(): setup_environment(), then setup_tools()
Construct ==
    /\ pc = "new"
    /\ \E built \in BOOLEAN :
          LET r == FinancialNewsFlow_setup_tools(FinancialNewsFlow_setup_environment(env), built)
          IN  /\ context' = IF r.ok THEN r.val ELSE PyNone
              /\ result' = IF r.ok THEN PyNone ELSE [t |-> "exception", e |-> r.err]
              /\ pc' = IF r.ok THEN "constructed" ELSE "raised"
    /\ UNCHANGED <<env, oracle, executed, calls, todo, mode, emitted>>

\* flow.setup_agents(), which no code of the repository calls
SetupAgents ==
    /\ pc = "constructed"
    /\ \E built \in 0..Len(agent_attributes) :
          /\ context' = FinancialNewsFlow_setup_agents(context, built)
          /\ context' # context
    /\ UNCHANGED <<pc, env, oracle, result, executed, calls, todo, mode, emitted>>

\* flow.run_complete_flow(); `emitted` keeps the outcome of the try block
RunCompleteFlow ==
    /\ pc = "constructed"
    /\ \E o \in FlowOracles :
          \E r \in {FinancialNewsFlow_run_complete_flow(context, o)} :
              /\ oracle' = o
              /\ result' = r.val
              /\ executed' = r.steps
              /\ calls' = r.calls
              /\ emitted' = r.out
              /\ pc' = IF r.val.t = "exception" THEN "raised" ELSE "returned"
    /\ UNCHANGED <<env, context, todo, mode>>

NextFlow == Construct \/ SetupAgents \/ RunCompleteFlow

SpecFlow == InitFlow /\ [][NextFlow]_vars

\* The run of the flow is over: run_complete_flow returned, or the
\* constructor or the run raised
FlowOver == pc \in {"returned", "raised"}

\* One of the four required keys is missing from the environment
CredentialMissing == FinancialNewsFlow_setup_environment(env).demo_mode

\* C24: when a required credential is missing at process start the run does
\* not fail: run_complete_flow goes through all its steps on demo data and
\* returns a result whose status is not failed.
C24_DemoRunNotFailed ==
    (FlowOver /\ CredentialMissing) =>
        /\ pc = "returned"
        /\ Len(executed) = 6
        /\ result.d.status # Text("failed")

\* run_complete_flow was called on the object
FlowRan == FlowOver /\ executed # <<>>

\* Step k of the run raises when it is reached: its agent was never
\* assigned, or outside demo mode one of its external calls fails
StepRaises(k) ==
    \/ context.agents < k
    \/ ~context.demo_mode /\ (~oracle.kickoff[k] \/ (k = 1 /\ ~oracle.search))

RaisingSteps == {k \in 1..4 : StepRaises(k)}
FirstRaising == CHOOSE k \in RaisingSteps : \A j \in RaisingSteps : k <= j

\* C25: an exception raised by a step of run_complete_flow is caught by the
\* handler of the run and reported as a result with success false, status
\* failed and the text of the error; it does not reach the caller, and no
\* step after the raising one runs.
C25_StepExceptionReported ==
    (FlowRan /\ RaisingSteps # {}) =>
        /\ pc = "returned"
        /\ ~emitted.ok
        /\ result = PyDict([success |-> PyBool(FALSE), error |-> Text(emitted.err),
                            status |-> Text("failed")])
        /\ Len(executed) = FirstRaising
        /\ Len(SelectSeq(calls, LAMBDA c : c = "crew.kickoff")) <= FirstRaising
        /\ \A i \in DOMAIN calls : calls[i] # "open"

C25_Witness ==
    /\ FlowRan
    /\ RaisingSteps = {3}
    /\ executed = <<"search_financial_news", "create_summary", "format_with_visuals">>
    /\ result.d.status = Text("failed")
    /\ result.d.error = Text("crew kickoff failed")

(***************************************************************************)
(* Objects and references: what each stage does to the objects it is       *)
(* given.  A heap is a sequence of objects, an object's address its index; *)
(* a reference is an address or an immutable value (a string, a number).   *)
(***************************************************************************)
Ref(a) == [a |-> a, v |-> ""]
Atom(v) == [a |-> 0, v |-> v]
ListObj(l) == [k |-> "list", l |-> l, d |-> <<>>]
DictObj(d) == [k |-> "dict", l |-> <<>>, d |-> d]

\* One statement of a stage that creates, reads or changes a container
Stmt(op, var, src, key) == [op |-> op, var |-> var, src |-> src, key |-> key]

Bind(bind, var, r) ==
    [x \in DOMAIN bind \cup {var} |-> IF x = var THEN r ELSE bind[x]]

InsertAt1(l, x) == IF l = <<>> THEN <<x>> ELSE <<Head(l), x>> \o Tail(l)

ElementsOf(heap, r) == IF r.a = 0 THEN <<>> ELSE heap[r.a].l

\* The heap and the local variables after one statement
ExecStmt(st, heap, bind) ==
    LET fresh == Len(heap) + 1
        alloc(obj) == [heap |-> Append(heap, obj), bind |-> Bind(bind, st.var, Ref(fresh))]
        write(obj) == [heap |-> [heap EXCEPT ![bind[st.var].a] = obj], bind |-> bind]
        target == heap[bind[st.var].a]
    IN  CASE st.op = "arg" ->          \* var = the record the stage was given
                [heap |-> heap, bind |-> Bind(bind, st.var, Ref(1))]
          [] st.op = "new_list" ->     \* var = [], or a list a str method returns
                alloc(ListObj(<<>>))
          [] st.op = "new_dict" ->     \* var = {}
                alloc(DictObj(<<>>))
          [] st.op = "get" ->          \* var = src.get(key, []): the object itself
                LET d == heap[bind[st.src].a].d
                IN  IF st.key \in DOMAIN d
                    THEN [heap |-> heap, bind |-> Bind(bind, st.var, d[st.key])]
                    ELSE alloc(ListObj(<<>>))
          [] st.op = "slice" ->        \* var = src[:n]: a new list of the same elements
                alloc(ListObj(ElementsOf(heap, bind[st.src])))
          [] st.op = "append" ->       \* var.append(x)
                write(ListObj(Append(target.l, Atom(st.key))))
          [] st.op = "append_each" ->  \* for x in src: var.append(f(x))
                write(ListObj(target.l \o [i \in DOMAIN ElementsOf(heap, bind[st.src]) |->
                                              Atom(st.key)]))
          [] st.op = "insert" ->       \* var.insert(1, x)
                write(ListObj(InsertAt1(target.l, Atom(st.key))))
          [] st.op = "extend" ->       \* var.extend(src)
                write(ListObj(target.l \o ElementsOf(heap, bind[st.src])))
          [] st.op = "setitem" ->      \* var[key] = src
                write(DictObj(Bind(target.d, st.key, bind[st.src])))

\* summary_agent.py, create_summary: the news items are read through a slice
\* and their texts collected in a local list
SummarizationStatements ==
    << Stmt("arg", "search_data", "", ""),
       Stmt("get", "news_items", "search_data", "news_data"),
       Stmt("new_list", "content_parts", "", ""),
       Stmt("slice", "top_items", "news_items", ""),
       Stmt("append_each", "content_parts", "top_items", "<item text>"),
       Stmt("new_list", "words", "", ""),
       Stmt("new_dict", "returned", "", "") >>

\* formatting_agent.py, format_content: the images are collected in a local
\* list, the paragraphs are the list split() returns
FormattingStatements ==
    << Stmt("arg", "summary_data", "", ""),
       Stmt("get", "summary_text", "summary_data", "summary"),
       Stmt("new_list", "images", "", ""),
       Stmt("new_list", "found_terms", "", ""),
       Stmt("append", "found_terms", "", "<term>"),
       Stmt("new_list", "fallback_images", "", ""),
       Stmt("append", "fallback_images", "", "<descriptor>"),
       Stmt("extend", "images", "fallback_images", ""),
       Stmt("slice", "first_two", "images", ""),
       Stmt("new_list", "paragraphs", "", ""),
       Stmt("insert", "paragraphs", "", "<chart marker>"),
       Stmt("insert", "paragraphs", "", "<chart marker>"),
       Stmt("new_dict", "returned", "", ""),
       Stmt("setitem", "returned", "first_two", "images") >>

\* A translation stage that appends a descriptor to the images it was given
TranslationStatements_TagImages ==
    << Stmt("arg", "formatted_data", "", ""),
       Stmt("get", "images", "formatted_data", "images"),
       Stmt("append", "images", "", "<descriptor>"),
       Stmt("new_dict", "translations", "", "") >>

\* translating_agent.py, translate_content: the images list of the upstream
\* record is stored, not copied, in every entry and in the bundle
TranslationStatements ==
    << Stmt("arg", "formatted_data", "", ""),
       Stmt("get", "images", "formatted_data", "images"),
       Stmt("new_dict", "translations", "", ""),
       Stmt("new_dict", "entry", "", ""),
       Stmt("setitem", "entry", "images", "images"),
       Stmt("setitem", "translations", "entry", "hindi"),
       Stmt("new_dict", "entry", "", ""),
       Stmt("setitem", "entry", "images", "images"),
       Stmt("setitem", "translations", "entry", "arabic"),
       Stmt("new_dict", "entry", "", ""),
       Stmt("setitem", "entry", "images", "images"),
       Stmt("setitem", "translations", "entry", "hebrew"),
       Stmt("new_dict", "returned", "", ""),
       Stmt("setitem", "returned", "translations", "translations"),
       Stmt("setitem", "returned", "images", "images") >>

\* pdf_generator.py, create_report: the flowables are appended to a local
\* story, the images are read from the record
AssemblyStatements ==
    << Stmt("new_list", "story", "", ""),
       Stmt("append", "story", "", "<title>"),
       Stmt("append", "story", "", "<heading>"),
       Stmt("new_list", "content_parts", "", ""),
       Stmt("new_list", "paragraphs", "", ""),
       Stmt("append", "story", "", "<paragraph>"),
       Stmt("get", "images", "pdf_data", "images"),
       Stmt("append_each", "story", "images", "<image flowables>") >>

\* send_agent.py, distribute_report: a new record is built for the document,
\* holding the upstream images list, and the first two images are read
\* through a slice
DistributionStatements ==
    << Stmt("arg", "formatted_data", "", ""),
       Stmt("new_dict", "pdf_data", "", ""),
       Stmt("get", "pdf_images", "formatted_data", "images"),
       Stmt("setitem", "pdf_data", "pdf_images", "images") >>
    \o AssemblyStatements \o
    << Stmt("get", "images", "formatted_data", "images"),
       Stmt("slice", "first_two", "images", ""),
       Stmt("new_dict", "returned", "", "") >>

FrameStages == {"Summarization", "Formatting", "Translation", "Distribution", "Assembly"}

StatementsOf(stage) ==
    CASE stage = "Summarization" -> SummarizationStatements
      [] stage = "Formatting" -> FormattingStatements
      [] stage = "Translation" -> TranslationStatements
      [] stage = "Distribution" -> DistributionStatements
      [] stage = "Assembly" -> <<Stmt("arg", "pdf_data", "", "")>> \o AssemblyStatements

\* The key under which a stage's upstream record holds a list
ListKey(stage) == IF stage = "Summarization" THEN "news_data" ELSE "images"

MaxHeapItems == 3

\* The upstream payload as objects: the record at address 1, its list at
\* address 2, the list's n items after it
UpstreamHeap(key, n) ==
    << DictObj([x \in {key, "timestamp"} |-> IF x = key THEN Ref(2) ELSE Atom("<now>")]),
       ListObj([i \in 1..n |-> Ref(2 + i)]) >>
    \o [i \in 1..n |-> DictObj([x \in {"title", "url"} |-> Atom(x)])]

\* A record without the list (the output of Summarization has none)
BareHeap == << DictObj([x \in {"summary", "timestamp"} |-> Atom(x)]) >>

InitFrame ==
    /\ pc = "run"
    /\ env = FullEnv
    /\ \E stage \in FrameStages :
          /\ executed = <<stage>>
          /\ todo = StatementsOf(stage)
          /\ context \in {BareHeap} \cup {UpstreamHeap(ListKey(stage), n) : n \in 0..MaxHeapItems}
    /\ result = context
    /\ emitted = <<>>
    /\ oracle = NoOracle
    /\ calls = <<>>
    /\ mode = "raw"

\* The next statement of the stage; `result` is the heap, `emitted` the
\* local variables, `context` the heap as it was when the stage was called
FrameStep ==
    /\ pc = "run"
    /\ todo # <<>>
    /\ LET r == ExecStmt(Head(todo), result, emitted)
       IN  /\ result' = r.heap
           /\ emitted' = r.bind
    /\ todo' = Tail(todo)
    /\ UNCHANGED <<pc, env, context, oracle, executed, calls, mode>>

FrameReturn ==
    /\ pc = "run"
    /\ todo = <<>>
    /\ pc' = "done"
    /\ UNCHANGED <<env, context, oracle, result, executed, calls, todo, mode, emitted>>

NextFrame == FrameStep \/ FrameReturn

SpecFrame == InitFrame /\ [][NextFrame]_vars

\* C26: when a stage (Summarization, Formatting, Translation, Distribution,
\* document assembly) returns, every object of the upstream payload it was
\* given, the record, its news_data or images list and each item or
\* descriptor, is as it was when the stage was called.
C26_UpstreamUnchanged ==
    pc = "done" => \A a \in DOMAIN context : result[a] = context[a]

\* Translation returned on a record with two images: the bundle it built
\* holds the upstream list itself
C26_Witness ==
    /\ pc = "done"
    /\ executed = <<"Translation">>
    /\ Len(context) = 4
    /\ Len(result) > Len(context)
    /\ result[emitted["returned"].a].d["images"] = Ref(2)
    /\ result[2] = ListObj(<<Ref(3), Ref(4)>>)

(***************************************************************************)
(* The two provider-fallback fetchers, each called once: execute_search    *)
(* and _find_financial_images                                              *)
(***************************************************************************)
\* Tavily answers with no result, one less than the minimum, or the minimum
FetchNewsOracles(e) ==
    {[tavily_news |-> t, serper_news |-> s, groq |-> g] :
        t \in IF e["TAVILY_API_KEY"] THEN NewsAnswers({0, EnoughNews - 1, MaxResults})
              ELSE {Unasked},
        s \in IF e["SERPER_API_KEY"] THEN NewsAnswers({0, 2}) ELSE {Unasked},
        g \in IF e["GROQ_API_KEY"] THEN {[ok |-> FALSE], [ok |-> TRUE]} ELSE {Unasked}}

InitFetch ==
    /\ pc = "call"
    /\ env \in EnvsOver({"SERPER_API_KEY", "TAVILY_API_KEY", "GROQ_API_KEY"})
    /\ \/ todo = <<"execute_search">> /\ context = PyNone
       \/ todo = <<"find_financial_images">> /\ context \in ImgTexts /\ env["GROQ_API_KEY"]
    /\ oracle = NoOracle
    /\ result = PyNone
    /\ executed = <<>>
    /\ calls = <<>>
    /\ mode = "raw"
    /\ emitted = PyNone

FetchNews ==
    /\ pc = "call"
    /\ todo = <<"execute_search">>
    /\ \E o \in FetchNewsOracles(env) :
          LET r == SearchAgent_execute_search(context, env, o)
          IN  /\ oracle' = o
              /\ result' = r.val
              /\ calls' = r.calls
    /\ executed' = todo
    /\ todo' = <<>>
    /\ pc' = "returned"
    /\ UNCHANGED <<env, context, mode, emitted>>

FetchImages ==
    /\ pc = "call"
    /\ todo = <<"find_financial_images">>
    /\ \E o \in ImageOracles({PyChars(UrlPng), PyChars(UrlNoExt)}) :
          LET r == FormattingAgent_find_financial_images(context, env, o)
          IN  /\ oracle' = o
              /\ result' = PyList(r.val)
              /\ calls' = r.calls
    /\ executed' = todo
    /\ todo' = <<>>
    /\ pc' = "returned"
    /\ UNCHANGED <<env, context, mode, emitted>>

NextFetch == FetchNews \/ FetchImages
SpecFetch == InitFetch /\ [][NextFetch]_vars

Asked(request) == \E i \in DOMAIN calls : calls[i] = request

\* No request to the second provider comes before one to the first
AskedInOrder(first, second) ==
    \A i, j \in DOMAIN calls : (calls[i] = second /\ calls[j] = first) => j < i

FromSource(items, source) == SelectSeq(items, LAMBDA x : SourceOf(x) = source)

\* The items of the first provider stand before all others
FirstAhead(items, source) ==
    \A i, j \in DOMAIN items :
        (SourceOf(items[j]) = source /\ SourceOf(items[i]) # source) => j < i

\* What Serper's image search gave in the run
SerperImages ==
    FormattingAgent_search_images_serper(
        FormattingAgent_extract_search_terms(context).val, oracle.serper_images).val

\* C27: the providers are asked in a fixed order and their results are
\* added up.  News: Serper is asked only when Tavily gave fewer than 10
\* items; images: Tavily only when Serper gave fewer than 2.  A failure of
\* the first provider does not keep the second from being asked, and what
\* the first provider gave stands before what the second gave.
C27_ProvidersInOrder ==
    /\ (pc = "returned" /\ executed = <<"execute_search">>) =>
          LET items == result.d.news_data.l
              given == IF env["TAVILY_API_KEY"] /\ oracle.tavily_news.ok
                       THEN oracle.tavily_news.n ELSE 0
          IN  /\ AskedInOrder("tavily.search", "serper.search")
              /\ Asked("serper.search") => given < EnoughNews
              /\ (env["TAVILY_API_KEY"] /\ ~oracle.tavily_news.ok /\ env["SERPER_API_KEY"])
                     => Asked("serper.search")
              /\ Len(FromSource(items, "Tavily")) = given
              /\ FirstAhead(items, "Tavily")
    /\ (pc = "returned" /\ executed = <<"find_financial_images">> /\ calls # <<>>) =>
          /\ AskedInOrder("serper.images", "tavily.images")
          /\ Asked("tavily.images") =>
                 (~env["SERPER_API_KEY"] \/ Len(SerperImages) < ImagesWanted)
          /\ (env["SERPER_API_KEY"] /\ env["TAVILY_API_KEY"]
                 /\ \E j \in 1..TermsPerProvider : ~oracle.serper_images[j].ok)
                 => Asked("tavily.images")
          /\ env["SERPER_API_KEY"] =>
                 Len(FromSource(result.l, "Serper")) = Min(ImagesWanted, Len(SerperImages))
          /\ FirstAhead(result.l, "Serper")

\* Tavily gave 9 items and Serper 2 more
C27_Witness ==
    /\ pc = "returned"
    /\ executed = <<"execute_search">>
    /\ calls = <<"tavily.search", "serper.search">>
    /\ Len(result.d.news_data.l) = EnoughNews + 1
    /\ SourceOf(result.d.news_data.l[EnoughNews - 1]) = "Tavily"
    /\ SourceOf(result.d.news_data.l[EnoughNews]) = "Serper"

(***************************************************************************)
(* _add_image_to_story called once on a fetched image of a given size      *)
(***************************************************************************)
MaxSmallSide == 4

\* Widths and heights: the smallest ones, the sides of the box and their
\* neighbours, and sizes far beyond the box
Sides == (1..MaxSmallSide) \cup {7, 150, 299, 300, 301, 399, 400, 401, 533, 800, 1000,
                                 1201, 4001, 10000}

ImageOfSize == {[ok |-> TRUE, width |-> w, height |-> h] : w \in Sides, h \in Sides}

InitEmbed ==
    /\ pc = "call"
    /\ env = FullEnv
    /\ context = PyDict([url |-> PyChars(UrlPng), title |-> PyStr(Sentence(<<W("A")>>))])
    /\ oracle = NoOracle
    /\ result = PyNone
    /\ executed = <<>>
    /\ calls = <<>>
    /\ todo = <<>>
    /\ mode = "raw"
    /\ emitted = PyNone

\* `emitted` takes the flowables appended to the story
EmbedImage ==
    /\ pc = "call"
    /\ \E answer \in ImageOfSize \cup {[ok |-> FALSE, why |-> "HTTP 404"]} :
          LET r == PDFGenerator_add_image_to_story(context, answer)
          IN  /\ oracle' = answer
              /\ calls' = r.calls
              /\ emitted' = r.flow
    /\ executed' = <<"add_image_to_story">>
    /\ pc' = "returned"
    /\ UNCHANGED <<env, context, result, todo, mode>>

NextEmbed == EmbedImage
SpecEmbed == InitEmbed /\ [][NextEmbed]_vars

\* The images among the flowables appended
Embedded == SelectSeq(emitted, LAMBDA f : f.k = "Image")

\* C28: a fetched image of width w >= 1 and height h >= 1 is embedded with
\* width <= 400 and height <= 300; an image inside the box keeps its size,
\* and a larger one is scaled down to the box with its aspect ratio kept: one
\* side is the side of the box and the other is less than 1 away from the
\* proportional size.
C28_EmbeddedImageFitsBox ==
    (pc = "returned" /\ oracle.ok) =>
        /\ Len(Embedded) = 1
        /\ LET w == oracle.width
               h == oracle.height
               x == Embedded[1].width
               y == Embedded[1].height
           IN  /\ 1 <= x /\ x <= max_width
               /\ 1 <= y /\ y <= max_height
               /\ (w <= max_width /\ h <= max_height) => (x = w /\ y = h)
               /\ (w > max_width \/ h > max_height) =>
                     IF max_width * h >= w * max_height
                     THEN y = max_height /\ AbsDiff(x * h, max_height * w) < h
                     ELSE x = max_width /\ AbsDiff(y * w, max_width * h) < w

\* An image four pixels high and 10000 wide is embedded 400 wide and 1 high
C28_Witness ==
    /\ pc = "returned"
    /\ oracle.ok
    /\ oracle.width = 10000 /\ oracle.height = 4
    /\ Embedded[1].width = max_width
    /\ Embedded[1].height = 1

(***************************************************************************)
(* _insert_images_in_summary called once on a text of some paragraphs and  *)
(* two images                                                              *)
(***************************************************************************)
MaxParagraphs == 4

SomeParagraphs ==
    { Para(<<W("Stocks"), W("rose.")>>), Para(<<W("Bonds"), W("fell.")>>), Para(<<>>) }

\* The texts of 1 to MaxParagraphs paragraphs
InsertTexts == UNION {[1..n -> SomeParagraphs] : n \in 1..MaxParagraphs}

\* Two resolved images: the two static ones, or one of each provider
ImagePairs ==
    { FormattingAgent_get_fallback_images,
      << ProviderDescriptor("Serper", PyChars(UrlPng), <<"stock", "market">>),
         ProviderDescriptor("Tavily", PyChars(UrlImageWord), <<"trading">>) >> }

InitInsert ==
    /\ pc = "call"
    /\ env = FullEnv
    /\ context \in {PyStr(t) : t \in InsertTexts}
    /\ oracle = NoOracle
    /\ result = PyNone
    /\ executed = <<>>
    /\ calls = <<>>
    /\ todo = <<>>
    /\ mode = "raw"
    /\ emitted = PyNone

\* `oracle` keeps the two images the text was formatted with
InsertCall ==
    /\ pc = "call"
    /\ \E images \in ImagePairs :
          /\ oracle' = images
          /\ result' = FormattingAgent_insert_images_in_summary(context, images).val
    /\ executed' = <<"insert_images_in_summary">>
    /\ pc' = "returned"
    /\ UNCHANGED <<env, context, calls, todo, mode, emitted>>

NextInsert == InsertCall
SpecInsert == InitInsert /\ [][NextInsert]_vars

\* Where the marker of an image stands among the blocks of a text
MarkerAt(blocks, image) == {i \in DOMAIN blocks : blocks[i] = ChartElement(image)}

\* The blocks without the markers and without the blank line each marker
\* begins with
RECURSIVE WithoutMarkers(_)
WithoutMarkers(blocks) ==
    IF blocks = <<>> THEN <<>>
    ELSE IF Head(blocks).k = "chart" THEN WithoutMarkers(Tail(blocks))
    ELSE IF Len(blocks) >= 2 /\ IsBlank(Head(blocks)) /\ blocks[2].k = "chart"
    THEN WithoutMarkers(Tail(blocks))
    ELSE <<Head(blocks)>> \o WithoutMarkers(Tail(blocks))

\* C29: a summary of at least one paragraph formatted with 2 images holds a
\* chart marker for each of the 2 images; the marker of the first image comes
\* directly after the first paragraph and before the marker of the second
\* image; the paragraphs of the summary are all kept, in their order.
C29_MarkersPlaced ==
    pc = "returned" =>
        LET blocks == result.s
            first == MarkerAt(blocks, oracle[1])
            second == MarkerAt(blocks, oracle[2])
        IN  /\ first # {}
            /\ second # {}
            /\ blocks[1] = context.s[1]
            /\ first = {3}
            /\ \A j \in second : j > 3
            /\ WithoutMarkers(blocks) = context.s

\* Every key is set and every external call of the run succeeds
AllSucceeds ==
    /\ ~CredentialMissing
    /\ oracle.search
    /\ \A k \in 1..4 : oracle.kickoff[k]
    /\ oracle.report

\* C30: a run of FinancialNewsFlow, construction followed by
\* run_complete_flow, with all credentials present and every external call
\* succeeding returns success true, status completed and telegram_sent true;
\* and a run that finishes all its steps without an exception has status
\* completed when the channel send succeeded and partial_success otherwise.
C30_FullRunCompleted ==
    /\ (pc = "returned" /\ AllSucceeds) =>
          /\ result.d.success = PyBool(TRUE)
          /\ result.d.status = Text("completed")
          /\ result.d.telegram_sent = PyBool(TRUE)
    /\ (pc = "returned" /\ emitted.ok) =>
          result.d.status = IF Truthy(result.d.telegram_sent) THEN Text("completed")
                            ELSE Text("partial_success")

====
